---- MODULE Spec2Model ----
(***************************************************************************)
(* State-machine model of the sf_etl_plus_pj ETL pipeline:                 *)
(*   src/src/database_handler.py  DatabaseHandler (connection, schema      *)
(*                                bootstrap, chunked conflict-guarded load)*)
(*   src/src/data_processor.py    DataProcessor (validation, statistics)   *)
(*   src/src/api_client.py        APIClient (fetch, unpacking)             *)
(*   src/src/main.py              main (orchestration, notifications)      *)
(* The PostgreSQL server is modelled at statement granularity under READ   *)
(* COMMITTED: a committed catalog flag and a committed row list, and per   *)
(* session an open transaction with its uncommitted rows.                  *)
(***************************************************************************)
EXTENDS Integers, Sequences, FiniteSets, TLC

(***************************************************************************)
(* Bounds of the model.                                                    *)
(***************************************************************************)
NumUsers == 2      \* distinct user ids among the records offered to insert_data
MaxLen == 2        \* longest record list handed to one insert_data call
MaxBatch == 2      \* largest batch_size
MaxCalls == 2      \* handler calls made in one behaviour (all sessions together)
MaxFail == 1       \* storage errors injected in one behaviour
MaxItems == 5       \* records of a load whose chunking is examined
MaxChunk == 3       \* its batch size
MaxLost == 1        \* connections that the server closes in one behaviour
MaxRecords == 3    \* longest record list handed to get_statistics directly

Procs == {1, 2}    \* two pipeline processes, each with its own DatabaseHandler

(***************************************************************************)
(* Python values.  Every value is a record of the same shape so that any   *)
(* two values can be compared: t is the Python type, s the characters of a *)
(* str, n the number of an int/bool (a float holds its value in tenths),   *)
(* d the fields <<Y, M, D, h, m, s, us>> of a datetime.                    *)
(***************************************************************************)
PyNone == [t |-> "none", s |-> <<>>, n |-> 0, d |-> <<>>]
PyInt(i) == [t |-> "int", s |-> <<>>, n |-> i, d |-> <<>>]
PyBool(b) == [t |-> "bool", s |-> <<>>, n |-> IF b THEN 1 ELSE 0, d |-> <<>>]
PyFloat(tenths) == [t |-> "float", s |-> <<>>, n |-> tenths, d |-> <<>>]
PyStr(chars) == [t |-> "str", s |-> chars, n |-> 0, d |-> <<>>]
PyDatetime(fields) == [t |-> "datetime", s |-> <<>>, n |-> 0, d |-> fields]

\* the value of a key the dict lacks
PyMissing == [t |-> "missing", s |-> <<>>, n |-> 0, d |-> <<>>]

DigitChars == <<"0", "1", "2", "3", "4", "5", "6", "7", "8", "9">>

(***************************************************************************)
(* Validated records offered to insert_data when the handler is driven     *)
(* directly: NumUsers natural keys, each with both values of is_correct.   *)
(***************************************************************************)
SidCourse == <<"c", "o", "u", "r", "s", "e", "-", "1">>
UrlHttps == <<"h", "t", "t", "p", "s", ":", "/", "/", "x">>
Stamp0 == <<2023, 4, 1, 0, 0, 0, 0>>

LoadRecord(u, c) ==
    [user_id |-> PyStr(<<"u", DigitChars[u + 1]>>),
     oauth_consumer_key |-> PyStr(<<>>),
     lis_result_sourcedid |-> PyStr(SidCourse),
     lis_outcome_service_url |-> PyStr(UrlHttps),
     is_correct |-> PyBool(c),
     attempt_type |-> PyStr(<<"s", "u", "b", "m", "i", "t">>),
     created_at |-> PyDatetime(Stamp0)]

LoadPool == {LoadRecord(u, c) : u \in 1..NumUsers, c \in BOOLEAN}

RECURSIVE ListsUpTo(_, _)
ListsUpTo(S, n) ==
    IF n = 0 THEN {<<>>}
    ELSE LET shorter == ListsUpTo(S, n - 1)
         IN shorter \cup {Append(l, x) : l \in {m \in shorter : Len(m) = n - 1}, x \in S}

LoadInputs == ListsUpTo(LoadPool, MaxLen)


(***************************************************************************)
(* Strings are tuples of characters.                                       *)
(***************************************************************************)
Str_course == <<"c", "o", "u", "r", "s", "e">>
Str_https == <<"h", "t", "t", "p", "s">>
Str_submit == <<"s", "u", "b", "m", "i", "t">>
Str_run == <<"r", "u", "n">>
Key_oauth_consumer_key == <<"o", "a", "u", "t", "h", "_", "c", "o", "n", "s", "u", "m", "e", "r", "_", "k", "e", "y">>
Key_lis_result_sourcedid == <<"l", "i", "s", "_", "r", "e", "s", "u", "l", "t", "_", "s", "o", "u", "r", "c", "e", "d", "i", "d">>
Key_lis_outcome_service_url == <<"l", "i", "s", "_", "o", "u", "t", "c", "o", "m", "e", "_", "s", "e", "r", "v", "i", "c", "e", "_", "u", "r", "l">>

\* sub in s (Python's substring test on str)
Contains(sub, s) ==
    \E i \in 0..(Len(s) - Len(sub)) : SubSeq(s, i + 1, i + Len(sub)) = sub

IsDigit(c) == \E i \in 1..10 : DigitChars[i] = c

DigitValue(c) == (CHOOSE i \in 1..10 : DigitChars[i] = c) - 1

IsSpace(c) == c = " "

\* s[i], or "" past the end
CharAt(s, i) == IF i >= 1 /\ i <= Len(s) THEN s[i] ELSE ""

\* s[i .. i+k-1] are k digits
DigitsAt(s, i, k) == i >= 1 /\ i + k - 1 <= Len(s) /\ \A j \in i..(i + k - 1) : IsDigit(s[j])

RECURSIVE Number(_, _, _)
\* the value of the k digits at s[i]
Number(s, i, k) ==
    IF k = 0 THEN 0 ELSE Number(s, i, k - 1) * 10 + DigitValue(s[i + k - 1])

RECURSIVE Pow10(_)
Pow10(k) == IF k = 0 THEN 1 ELSE 10 * Pow10(k - 1)

(***************************************************************************)
(* datetime.strptime(s, format): the format is a sequence of directives    *)
(* and literals, matched as its regular expression and then checked as a   *)
(* date.                                                                   *)
(***************************************************************************)
\* "%Y-%m-%d %H:%M:%S.%f"
Format_fraction == <<"Y", "-", "m", "-", "d", " ", "H", ":", "M", ":", "S", ".", "f">>
\* "%Y-%m-%d %H:%M:%S"
Format_seconds == <<"Y", "-", "m", "-", "d", " ", "H", ":", "M", ":", "S">>

Captured(v, nxt) == [cap |-> TRUE, v |-> v, nxt |-> nxt]
Skipped(nxt) == [cap |-> FALSE, v |-> 0, nxt |-> nxt]

\* k digits at s[i] whose value is in lo..hi
DigitsIn(s, i, k, lo, hi) ==
    IF DigitsAt(s, i, k) /\ Number(s, i, k) \in lo..hi
    THEN {Captured(Number(s, i, k), i + k)} ELSE {}

\* the ways directive x matches s at position i
Options(x, s, i) ==
    CASE x = "Y" -> DigitsIn(s, i, 4, 0, 9999)
      [] x = "m" -> DigitsIn(s, i, 2, 1, 12) \cup DigitsIn(s, i, 1, 1, 9)
      [] x = "d" -> DigitsIn(s, i, 2, 1, 31) \cup DigitsIn(s, i, 1, 1, 9)
                    \cup (IF CharAt(s, i) = " " /\ DigitsAt(s, i + 1, 1) /\ Number(s, i + 1, 1) >= 1
                          THEN {Captured(Number(s, i + 1, 1), i + 2)} ELSE {})
      [] x = "H" -> DigitsIn(s, i, 2, 0, 23) \cup DigitsIn(s, i, 1, 0, 9)
      [] x = "M" -> DigitsIn(s, i, 2, 0, 59) \cup DigitsIn(s, i, 1, 0, 9)
      [] x = "S" -> DigitsIn(s, i, 2, 0, 61) \cup DigitsIn(s, i, 1, 0, 9)
      [] x = "f" -> {Captured(Number(s, i, k) * Pow10(6 - k), i + k) :
                        k \in {j \in 1..6 : DigitsAt(s, i, j)}}
      [] x = " " -> {Skipped(j) : j \in {e \in (i + 1)..(Len(s) + 1) :
                                            \A t \in i..(e - 1) : IsSpace(s[t])}}
      [] OTHER -> IF CharAt(s, i) = x THEN {Skipped(i + 1)} ELSE {}

RECURSIVE Match(_, _, _, _, _)
\* the captured numbers of every match of format[k..] on s[i..] that ends at
\* the end of s
Match(s, i, format, k, acc) ==
    IF k > Len(format)
    THEN IF i = Len(s) + 1 THEN {acc} ELSE {}
    ELSE UNION {Match(s, o.nxt, format, k + 1, IF o.cap THEN Append(acc, o.v) ELSE acc) :
                    o \in Options(format[k], s, i)}

IsLeap(y) == y % 4 = 0 /\ (y % 100 # 0 \/ y % 400 = 0)

DaysInMonth(y, m) ==
    IF m = 2 THEN (IF IsLeap(y) THEN 29 ELSE 28)
    ELSE IF m \in {4, 6, 9, 11} THEN 30 ELSE 31

\* datetime(Y, m, d, H, M, S, us) accepts the fields
ValidDate(f) == f[1] >= 1 /\ f[3] <= DaysInMonth(f[1], f[2]) /\ f[6] <= 59

ParseFailed == [ok |-> FALSE, value |-> PyNone]

\* the datetime, or ValueError (TypeError when x is not a str)
strptime(x, format) ==
    IF x.t # "str" THEN ParseFailed
    ELSE LET ms == Match(x.s, 1, format, 1, <<>>)
         IN IF ms = {} THEN ParseFailed
            ELSE LET c == CHOOSE m \in ms : TRUE
                     f == IF Len(c) = 7 THEN c ELSE Append(c, 0)
                 IN IF ValidDate(f) THEN [ok |-> TRUE, value |-> PyDatetime(f)]
                    ELSE ParseFailed

(***************************************************************************)
(* json.loads, for the texts a passback_params block can be: an object     *)
(* whose values are strings, integers or null (escapes are not modelled).  *)
(* An object is the sequence of its <<key, value>> members.                *)
(***************************************************************************)
\* invalid_json_string.replace("'", '"')
Replace(s, old, new) == [i \in 1..Len(s) |-> IF s[i] = old THEN new ELSE s[i]]

RECURSIVE SkipSpace(_, _)
SkipSpace(s, i) == IF IsSpace(CharAt(s, i)) THEN SkipSpace(s, i + 1) ELSE i

RECURSIVE ClosingQuote(_, _)
\* the index of the first quote at or after s[j], 0 when there is none
ClosingQuote(s, j) ==
    IF j > Len(s) THEN 0 ELSE IF s[j] = "\"" THEN j ELSE ClosingQuote(s, j + 1)

RECURSIVE DigitsEnd(_, _)
DigitsEnd(s, i) == IF IsDigit(CharAt(s, i)) THEN DigitsEnd(s, i + 1) ELSE i

JsonError == [ok |-> FALSE, v |-> PyNone, nxt |-> 0]

JsonValue(s, i) ==
    IF CharAt(s, i) = "\""
    THEN LET j == ClosingQuote(s, i + 1)
         IN IF j = 0 THEN JsonError
            ELSE [ok |-> TRUE, v |-> PyStr(SubSeq(s, i + 1, j - 1)), nxt |-> j + 1]
    ELSE IF IsDigit(CharAt(s, i))
    THEN LET e == DigitsEnd(s, i)
         IN IF CharAt(s, i) = "0" /\ e > i + 1 THEN JsonError
            ELSE [ok |-> TRUE, v |-> PyInt(Number(s, i, e - i)), nxt |-> e]
    ELSE IF i + 3 <= Len(s) /\ SubSeq(s, i, i + 3) = <<"n", "u", "l", "l">>
    THEN [ok |-> TRUE, v |-> PyNone, nxt |-> i + 4]
    ELSE JsonError

ObjectError == [ok |-> FALSE, members |-> <<>>, nxt |-> 0]

RECURSIVE JsonMembers(_, _, _)
\* the members of an object from the key at s[i] up to the closing brace
JsonMembers(s, i, acc) ==
    LET key == JsonValue(s, i)
        colon == SkipSpace(s, key.nxt)
        val == JsonValue(s, SkipSpace(s, colon + 1))
        sep == SkipSpace(s, val.nxt)
    IN IF ~(CharAt(s, i) = "\"" /\ key.ok) THEN ObjectError
       ELSE IF CharAt(s, colon) # ":" THEN ObjectError
       ELSE IF ~val.ok THEN ObjectError
       ELSE IF CharAt(s, sep) = ","
       THEN JsonMembers(s, SkipSpace(s, sep + 1), Append(acc, <<key.v.s, val.v>>))
       ELSE IF CharAt(s, sep) = "}"
       THEN [ok |-> TRUE, members |-> Append(acc, <<key.v.s, val.v>>), nxt |-> sep + 1]
       ELSE ObjectError

\* json.loads(s) when it yields a dict; anything else is an error for the caller
json_loads(s) ==
    LET open == SkipSpace(s, 1)
        first == SkipSpace(s, open + 1)
        obj == IF CharAt(s, first) = "}"
               THEN [ok |-> TRUE, members |-> <<>>, nxt |-> first + 1]
               ELSE JsonMembers(s, first, <<>>)
    IN IF CharAt(s, open) # "{" THEN ObjectError
       ELSE IF obj.ok /\ SkipSpace(s, obj.nxt) = Len(s) + 1 THEN obj
       ELSE ObjectError

HasKey(members, k) == \E i \in 1..Len(members) : members[i][1] = k

\* dict[k]: the value of the last member with key k; PyMissing stands for the
\* KeyError when there is none
Lookup(members, k) ==
    IF ~HasKey(members, k) THEN PyMissing
    ELSE members[CHOOSE i \in 1..Len(members) :
                    /\ members[i][1] = k
                    /\ \A j \in (i + 1)..Len(members) : members[j][1] # k][2]

(***************************************************************************)
(* APIClient.get_unpacked_data                                            *)
(***************************************************************************)
\* mutant of PassbackOk: the keys of the parsed block are not required
PassbackParsed(row) ==
    /\ row.passback_params.t = "str"
    /\ json_loads(Replace(row.passback_params.s, "'", "\"")).ok

\* the passback_params block of a row unpacks (lines 81-91)
PassbackOk(row) ==
    /\ row.passback_params.t = "str"
    /\ LET obj == json_loads(Replace(row.passback_params.s, "'", "\""))
       IN /\ obj.ok
          /\ HasKey(obj.members, Key_oauth_consumer_key)
          /\ HasKey(obj.members, Key_lis_result_sourcedid)
          /\ HasKey(obj.members, Key_lis_outcome_service_url)

\* the row is kept (lines 73-112)
Unpacks(row) ==
    /\ row.lti_user_id # PyMissing
    /\ PassbackOk(row)
    /\ row.is_correct # PyMissing
    /\ row.attempt_type # PyMissing
    /\ row.created_at # PyMissing

\* task_dict of a row that is kept
task_dict(row) ==
    LET obj == json_loads(Replace(row.passback_params.s, "'", "\""))
    IN [user_id |-> row.lti_user_id,
        oauth_consumer_key |-> Lookup(obj.members, Key_oauth_consumer_key),
        lis_result_sourcedid |-> Lookup(obj.members, Key_lis_result_sourcedid),
        lis_outcome_service_url |-> Lookup(obj.members, Key_lis_outcome_service_url),
        is_correct |-> row.is_correct,
        attempt_type |-> row.attempt_type,
        created_at |-> row.created_at]

RECURSIVE Unpacked(_)
Unpacked(data) ==
    IF data = <<>> THEN <<>>
    ELSE LET rest == Unpacked(Tail(data))
         IN IF Unpacks(Head(data)) THEN <<task_dict(Head(data))>> \o rest ELSE rest

\* get_unpacked_data: self.data is read at line 65 (AttributeError when
\* request_data did not set it) and its length divides at line 116
\* (ZeroDivisionError when it is empty)
get_unpacked_data(resp) ==
    IF ~resp.has_data \/ Len(resp.data) = 0
    THEN [raised |-> TRUE, out |-> <<>>]
    ELSE [raised |-> FALSE, out |-> Unpacked(resp.data)]

(***************************************************************************)
(* DataProcessor.process_data                                             *)
(***************************************************************************)
\* x == k for an int k, as Python compares None, bool, int, float and str
PyEqualsInt(x, k) ==
    \/ x.t \in {"int", "bool"} /\ x.n = k
    \/ x.t = "float" /\ x.n = 10 * k

\* row['is_correct'] in (None, 0, 1)
FlagAccepted(x) == x = PyNone \/ PyEqualsInt(x, 0) \/ PyEqualsInt(x, 1)

\* bool(x) for None and numbers
Truthy(x) == x.t \in {"int", "bool", "float"} /\ x.n # 0

\* mutant of Rejection: attempt_type is checked before is_correct
RejectionTypeFirst(row) ==
    IF row.user_id = PyMissing THEN "KeyError"
    ELSE IF row.user_id.t # "str" THEN "user_id"
    ELSE IF row.lis_result_sourcedid = PyMissing THEN "KeyError"
    ELSE IF ~(row.lis_result_sourcedid.t = "str"
              /\ Contains(Str_course, row.lis_result_sourcedid.s))
    THEN "lis_result_sourcedid"
    ELSE IF row.lis_outcome_service_url = PyMissing THEN "KeyError"
    ELSE IF ~(row.lis_outcome_service_url.t = "str"
              /\ Contains(Str_https, row.lis_outcome_service_url.s))
    THEN "lis_outcome_service_url"
    ELSE IF row.attempt_type = PyMissing THEN "KeyError"
    ELSE IF ~(row.attempt_type.t = "str" /\ row.attempt_type.s \in {Str_submit, Str_run})
    THEN "attempt_type"
    ELSE IF row.is_correct = PyMissing THEN "KeyError"
    ELSE IF ~FlagAccepted(row.is_correct) THEN "is_correct"
    ELSE IF row.created_at = PyMissing THEN "KeyError"
    ELSE IF ~strptime(row.created_at, Format_fraction).ok THEN "created_at"
    ELSE ""

\* the first check of lines 14-51 that the row fails, "" when it passes all;
\* "KeyError" when the check reads a key the row lacks
Rejection(row) ==
    IF row.user_id = PyMissing THEN "KeyError"
    ELSE IF row.user_id.t # "str" THEN "user_id"
    ELSE IF row.lis_result_sourcedid = PyMissing THEN "KeyError"
    ELSE IF ~(row.lis_result_sourcedid.t = "str"
              /\ Contains(Str_course, row.lis_result_sourcedid.s))
    THEN "lis_result_sourcedid"
    ELSE IF row.lis_outcome_service_url = PyMissing THEN "KeyError"
    ELSE IF ~(row.lis_outcome_service_url.t = "str"
              /\ Contains(Str_https, row.lis_outcome_service_url.s))
    THEN "lis_outcome_service_url"
    ELSE IF row.is_correct = PyMissing THEN "KeyError"
    ELSE IF ~FlagAccepted(row.is_correct) THEN "is_correct"
    ELSE IF row.attempt_type = PyMissing THEN "KeyError"
    ELSE IF ~(row.attempt_type.t = "str" /\ row.attempt_type.s \in {Str_submit, Str_run})
    THEN "attempt_type"
    ELSE IF row.created_at = PyMissing THEN "KeyError"
    ELSE IF ~strptime(row.created_at, Format_fraction).ok THEN "created_at"
    ELSE ""

\* the row as appended to processed_data (lines 35, 48, 53)
Normalized(row) ==
    [row EXCEPT !.is_correct = PyBool(Truthy(row.is_correct)),
                !.created_at = strptime(row.created_at, Format_fraction).value]

RECURSIVE Validated(_)
Validated(unp_data) ==
    IF unp_data = <<>> THEN <<>>
    ELSE LET rest == Validated(Tail(unp_data))
         IN IF Rejection(Head(unp_data)) = ""
            THEN <<Normalized(Head(unp_data))>> \o rest ELSE rest

RECURSIVE DebugLog(_)
\* the debug messages of the loop, one per rejected row
DebugLog(unp_data) ==
    IF unp_data = <<>> THEN <<>>
    ELSE IF Rejection(Head(unp_data)) \in {"", "KeyError"} THEN DebugLog(Tail(unp_data))
    ELSE <<Rejection(Head(unp_data))>> \o DebugLog(Tail(unp_data))

\* process_data: a KeyError of the loop, or the ZeroDivisionError of line 55
\* for an empty input, escapes
process_data(unp_data) ==
    IF \/ unp_data = <<>>
       \/ \E i \in 1..Len(unp_data) :
             /\ Rejection(unp_data[i]) = "KeyError"
    THEN [raised |-> TRUE, out |-> <<>>, log |-> <<>>]
    ELSE [raised |-> FALSE, out |-> Validated(unp_data), log |-> DebugLog(unp_data)]


(***************************************************************************)
(* DataProcessor.get_statistics                                           *)
(***************************************************************************)
UpperChars == <<"A", "B", "C", "D", "E", "F", "G", "H", "I", "J", "K", "L", "M",
                "N", "O", "P", "Q", "R", "S", "T", "U", "V", "W", "X", "Y", "Z">>
LowerChars == <<"a", "b", "c", "d", "e", "f", "g", "h", "i", "j", "k", "l", "m",
                "n", "o", "p", "q", "r", "s", "t", "u", "v", "w", "x", "y", "z">>

\* str.lower()
Lower(s) ==
    [i \in 1..Len(s) |->
        IF \E j \in 1..26 : UpperChars[j] = s[i]
        THEN LowerChars[CHOOSE j \in 1..26 : UpperChars[j] = s[i]]
        ELSE s[i]]

\* ('true', '1', 't', 'yes')
TrueWords == {<<"t", "r", "u", "e">>, <<"1">>, <<"t">>, <<"y", "e", "s">>}

\* mutant of CountsCorrect: a string never counts as correct
CountsCorrectNoStrings(x) == x.t \in {"bool", "int", "float"} /\ x.n # 0

\* lines 92-108: the record counts as correct, as incorrect, or as neither
CountsCorrect(x) ==
    \/ x.t \in {"bool", "int", "float"} /\ x.n # 0
    \/ x.t = "str" /\ Lower(x.s) \in TrueWords

CountsIncorrect(x) ==
    \/ x.t \in {"bool", "int", "float"} /\ x.n = 0
    \/ x.t = "str" /\ Lower(x.s) \notin TrueWords

\* the element a value is in a Python set: equal numbers are one element
PyKey(x) ==
    IF x.t \in {"bool", "int"} THEN [x EXCEPT !.t = "float", !.n = 10 * x.n] ELSE x

RECURSIVE LexLess(_, _, _)
\* a < b for two datetimes, from field i on
LexLess(a, b, i) ==
    IF i > Len(a) THEN FALSE
    ELSE IF a[i] # b[i] THEN a[i] < b[i]
    ELSE LexLess(a, b, i + 1)

\* mutant of AttemptDate: the format without fractional seconds is not tried
AttemptDateOneFormat(x) ==
    IF x.t = "datetime" THEN x
    ELSE IF x.t # "str" THEN PyNone
    ELSE strptime(x, Format_fraction).value

\* lines 111-120: the datetime of a record, PyNone when it has none
AttemptDate(x) ==
    IF x.t = "datetime" THEN x
    ELSE IF x.t # "str" THEN PyNone
    ELSE IF strptime(x, Format_fraction).ok THEN strptime(x, Format_fraction).value
    ELSE strptime(x, Format_seconds).value

RECURSIVE Earliest(_, _)
\* lines 123-124 over the records
Earliest(records, acc) ==
    IF records = <<>> THEN acc
    ELSE LET c == AttemptDate(Head(records).created_at)
         IN Earliest(Tail(records),
                     IF c # PyNone /\ (acc = PyNone \/ LexLess(c.d, acc.d, 1)) THEN c ELSE acc)

RECURSIVE Latest(_, _)
\* lines 125-126 over the records
Latest(records, acc) ==
    IF records = <<>> THEN acc
    ELSE LET c == AttemptDate(Head(records).created_at)
         IN Latest(Tail(records),
                   IF c # PyNone /\ (acc = PyNone \/ LexLess(acc.d, c.d, 1)) THEN c ELSE acc)

\* a float of at most two decimals, as its hundredths; float('inf')
Hundredths(h) == [inf |-> FALSE, h |-> h]
Infinity == [inf |-> TRUE, h |-> 0]

\* round(num / den, 2) for counts num >= 0 and den > 0: the nearest hundredth
\* (no quotient of two counts with den < 8 lies halfway between two hundredths)
Round2(num, den) == Hundredths((200 * num + den) \div (2 * den))

DaysBeforeYear(y) == (y - 1) * 365 + (y - 1) \div 4 - (y - 1) \div 100 + (y - 1) \div 400

RECURSIVE DaysBeforeMonth(_, _)
DaysBeforeMonth(y, m) ==
    IF m = 1 THEN 0 ELSE DaysBeforeMonth(y, m - 1) + DaysInMonth(y, m - 1)

\* datetime.toordinal()
Ordinal(f) == DaysBeforeYear(f[1]) + DaysBeforeMonth(f[1], f[2]) + f[3]

TimeOfDay(f) == <<f[4], f[5], f[6], f[7]>>

\* mutant of DaysBetween: the difference of the calendar dates
CalendarDaysBetween(a, b) == Ordinal(b) - Ordinal(a)

\* (b - a).days: timedelta keeps 0 <= seconds, so the days are the floor
DaysBetween(a, b) ==
    Ordinal(b) - Ordinal(a) - (IF LexLess(TimeOfDay(b), TimeOfDay(a), 1) THEN 1 ELSE 0)

\* the loop or line 143 raises: a key is missing, or created_at is a non-zero
\* number
AnalysisFails(records) ==
    \E i \in 1..Len(records) :
        \/ PyMissing \in {records[i].user_id, records[i].attempt_type,
                          records[i].is_correct, records[i].created_at}
        \/ records[i].created_at.t \in {"bool", "int", "float"} /\ records[i].created_at.n # 0

\* get_statistics answers None
NoStatistics ==
    [present |-> FALSE, total_records |-> 0, unique_users |-> 0,
     submit_attempts |-> 0, run_attempts |-> 0,
     correct_attempts |-> 0, incorrect_attempts |-> 0,
     earliest_attempt |-> PyNone, latest_attempt |-> PyNone,
     success_rate |-> Hundredths(0), run_to_submit_ratio |-> Hundredths(0),
     avg_attempts_per_user |-> Hundredths(0), date_range_days |-> 0]

\* mutant of Caught: the exception is not caught
CaughtNever(records) == FALSE

\* lines 157-159: an exception of lines 67-155 is caught and logged
Caught(records) == AnalysisFails(records)

\* an exception of get_statistics reaches the caller
Escapes(records) == records # <<>> /\ AnalysisFails(records) /\ ~Caught(records)

Count(records, Test(_)) == Cardinality({i \in 1..Len(records) : Test(records[i])})

\* lines 130-144: the stats dict of the counters and the two timestamps
Summary(total_records, unique_users, submit_attempts, run_attempts, correct_attempts, incorrect_attempts, earliest_attempt, latest_attempt) ==
    [present |-> TRUE,
     total_records |-> total_records,
     unique_users |-> unique_users,
     submit_attempts |-> submit_attempts,
     run_attempts |-> run_attempts,
     correct_attempts |-> correct_attempts,
     incorrect_attempts |-> incorrect_attempts,
     earliest_attempt |-> earliest_attempt,
     latest_attempt |-> latest_attempt,
     success_rate |-> IF submit_attempts > 0
                      THEN Round2(correct_attempts * 100, submit_attempts)
                      ELSE Hundredths(0),
     run_to_submit_ratio |-> IF submit_attempts > 0
                             THEN Round2(run_attempts, submit_attempts)
                             ELSE Infinity,
     avg_attempts_per_user |-> IF unique_users > 0
                               THEN Round2(total_records, unique_users)
                               ELSE Hundredths(0),
     date_range_days |-> IF earliest_attempt # PyNone /\ latest_attempt # PyNone
                         THEN DaysBetween(earliest_attempt.d, latest_attempt.d)
                         ELSE 0]

get_statistics(processed_data) ==
    IF processed_data = <<>> \/ Caught(processed_data) THEN NoStatistics
    ELSE LET IsSubmit(r) == r.attempt_type = PyStr(Str_submit)
             IsRun(r) == r.attempt_type = PyStr(Str_run)
             IsCorrect(r) == CountsCorrect(r.is_correct)
             IsIncorrect(r) == CountsIncorrect(r.is_correct)
         IN Summary(Len(processed_data),
                    Cardinality({PyKey(processed_data[i].user_id) :
                                    i \in 1..Len(processed_data)}),
                    Count(processed_data, IsSubmit),
                    Count(processed_data, IsRun),
                    Count(processed_data, IsCorrect),
                    Count(processed_data, IsIncorrect),
                    Earliest(processed_data, PyNone),
                    Latest(processed_data, PyNone))

(***************************************************************************)
(* Rows the API may answer with (APIClient.data).  A key the row lacks is  *)
(* PyMissing.                                                              *)
(***************************************************************************)
Pb_full == <<"{", "'", "o", "a", "u", "t", "h", "_", "c", "o", "n", "s", "u", "m", "e", "r", "_", "k", "e", "y", "'", ":", " ", "'", "'", ",", " ", "'", "l", "i", "s", "_", "r", "e", "s", "u", "l", "t", "_", "s", "o", "u", "r", "c", "e", "d", "i", "d", "'", ":", " ", "'", "c", "o", "u", "r", "s", "e", "-", "1", "'", ",", " ", "'", "l", "i", "s", "_", "o", "u", "t", "c", "o", "m", "e", "_", "s", "e", "r", "v", "i", "c", "e", "_", "u", "r", "l", "'", ":", " ", "'", "h", "t", "t", "p", "s", ":", "/", "/", "x", "'", "}">>
Pb_no_url == <<"{", "'", "o", "a", "u", "t", "h", "_", "c", "o", "n", "s", "u", "m", "e", "r", "_", "k", "e", "y", "'", ":", " ", "'", "k", "'", ",", " ", "'", "l", "i", "s", "_", "r", "e", "s", "u", "l", "t", "_", "s", "o", "u", "r", "c", "e", "d", "i", "d", "'", ":", " ", "'", "c", "o", "u", "r", "s", "e", "-", "1", "'", "}">>
Pb_truncated == <<"{", "'", "o", "a", "u", "t", "h", "_", "c", "o", "n", "s", "u", "m", "e", "r", "_", "k", "e", "y", "'", ":", " ", "'", "k">>
Pb_numeric_sid == <<"{", "'", "o", "a", "u", "t", "h", "_", "c", "o", "n", "s", "u", "m", "e", "r", "_", "k", "e", "y", "'", ":", " ", "'", "'", ",", " ", "'", "l", "i", "s", "_", "r", "e", "s", "u", "l", "t", "_", "s", "o", "u", "r", "c", "e", "d", "i", "d", "'", ":", " ", "5", ",", " ", "'", "l", "i", "s", "_", "o", "u", "t", "c", "o", "m", "e", "_", "s", "e", "r", "v", "i", "c", "e", "_", "u", "r", "l", "'", ":", " ", "'", "h", "t", "t", "p", "s", ":", "/", "/", "x", "'", "}">>
Pb_no_key == <<"{", "'", "l", "i", "s", "_", "r", "e", "s", "u", "l", "t", "_", "s", "o", "u", "r", "c", "e", "d", "i", "d", "'", ":", " ", "'", "c", "o", "u", "r", "s", "e", "-", "1", "'", ",", " ", "'", "l", "i", "s", "_", "o", "u", "t", "c", "o", "m", "e", "_", "s", "e", "r", "v", "i", "c", "e", "_", "u", "r", "l", "'", ":", " ", "'", "h", "t", "t", "p", "s", ":", "/", "/", "x", "'", "}">>
Created_1 == <<"2", "0", "2", "3", "-", "0", "4", "-", "0", "1", " ", "1", "2", ":", "4", "6", ":", "4", "7", ".", "8", "6", "0", "7", "9", "8">>
Created_2 == <<"2", "0", "2", "3", "-", "0", "4", "-", "0", "3", " ", "1", "2", ":", "0", "0", ":", "0", "0", ".", "5">>
Created_no_fraction == <<"2", "0", "2", "3", "-", "0", "4", "-", "0", "1", " ", "1", "2", ":", "4", "6", ":", "4", "7">>
Created_bad_day == <<"2", "0", "2", "3", "-", "0", "2", "-", "3", "0", " ", "0", "0", ":", "0", "0", ":", "0", "0", ".", "0">>

User(u) == PyStr(<<"u", DigitChars[u + 1]>>)

\* one row of the API's answer
ApiRow(user, passback, flag, type, created) ==
    [lti_user_id |-> user, passback_params |-> passback, is_correct |-> flag,
     attempt_type |-> type, created_at |-> created]

ApiPool ==
    {ApiRow(User(1), PyStr(Pb_full), PyInt(1), PyStr(Str_submit), PyStr(Created_1)),
     ApiRow(User(1), PyStr(Pb_full), PyInt(0), PyStr(Str_submit), PyStr(Created_1)),
     ApiRow(User(2), PyStr(Pb_full), PyNone, PyStr(Str_run), PyStr(Created_2)),
     ApiRow(User(1), PyStr(Pb_full), PyInt(2), PyStr(Str_submit), PyStr(Created_1)),
     ApiRow(User(2), PyStr(Pb_numeric_sid), PyInt(1), PyStr(Str_run), PyStr(Created_2)),
     ApiRow(User(1), PyStr(Pb_no_url), PyInt(1), PyStr(Str_submit), PyStr(Created_1)),
     ApiRow(User(2), PyStr(Pb_truncated), PyInt(1), PyStr(Str_run), PyStr(Created_2)),
     ApiRow(User(2), PyNone, PyInt(1), PyStr(Str_run), PyStr(Created_2)),
     ApiRow(User(1), PyStr(Pb_no_key), PyInt(1), PyStr(Str_submit), PyStr(Created_1)),
     ApiRow(User(2), PyMissing, PyInt(1), PyStr(Str_run), PyStr(Created_2)),
     ApiRow(PyMissing, PyStr(Pb_full), PyInt(1), PyStr(Str_submit), PyStr(Created_1))}

\* response.json(): a list of at most MaxLen rows
ApiInputs == ListsUpTo(ApiPool, MaxLen)

(***************************************************************************)
(* Unpacked rows handed to process_data: every field drawn from values of  *)
(* each Python type the field can arrive with.                             *)
(***************************************************************************)
UserIdValues == {User(1), User(2), PyStr(<<>>), PyInt(7), PyNone}

SidValues == {PyStr(SidCourse), PyStr(<<"c", "o", "u", "r", "s">>), PyInt(5), PyNone}

UrlValues == {PyStr(UrlHttps), PyStr(<<"h", "t", "t", "p", ":", "/", "/", "x">>), PyNone}

FlagValues ==
    {PyNone, PyInt(0), PyInt(1), PyInt(2), PyBool(TRUE), PyBool(FALSE),
     PyFloat(0), PyFloat(10), PyFloat(5), PyStr(<<"1">>), PyStr(<<"0">>), PyStr(<<>>)}

TypeValues == {PyStr(Str_submit), PyStr(Str_run), PyStr(<<"R", "u", "n">>), PyNone}

CreatedValues ==
    {PyStr(Created_1), PyStr(Created_2), PyStr(Created_no_fraction),
     PyStr(Created_bad_day), PyStr(<<>>), PyNone, PyDatetime(Stamp0)}

UnpackedRow(user, sid, url, flag, type, created) ==
    [user_id |-> user, oauth_consumer_key |-> PyStr(<<>>),
     lis_result_sourcedid |-> sid, lis_outcome_service_url |-> url,
     is_correct |-> flag, attempt_type |-> type, created_at |-> created]

UnpackedRows ==
    {UnpackedRow(user, sid, url, flag, type, created) :
        user \in UserIdValues, sid \in SidValues, url \in UrlValues,
        flag \in FlagValues, type \in TypeValues, created \in CreatedValues}

\* a row all of whose fields are valid
GoodRow ==
    UnpackedRow(User(1), PyStr(SidCourse), PyStr(UrlHttps), PyInt(1),
                PyStr(Str_submit), PyStr(Created_1))

\* GoodRow without one of its keys
RowsLackingKey == {[GoodRow EXCEPT ![f] = PyMissing] : f \in DOMAIN GoodRow}

\* the rows with at most one field that is not GoodRow's
NearRows ==
    {r \in UnpackedRows :
        Cardinality({f \in DOMAIN r : r[f] # GoodRow[f]}) <= 1} \cup RowsLackingKey

\* the lists process_data is applied to: the empty list, every single row, and
\* every list of MaxLen rows that each differ from GoodRow in at most one field
ValidateInputs ==
    {<<>>} \cup {<<r>> : r \in UnpackedRows \cup RowsLackingKey}
           \cup {l \in ListsUpTo(NearRows, MaxLen) : Len(l) = MaxLen}

(***************************************************************************)
(* Records handed to get_statistics directly: each differs from GoodRecord *)
(* in one field, drawn from values of each Python type the aggregator      *)
(* tells apart, or lacks one of the keys the aggregator reads.             *)
(***************************************************************************)
Stamp1 == <<2023, 4, 3, 12, 0, 0, 0>>
Stamp2 == <<2024, 3, 1, 6, 0, 0, 0>>

GoodRecord ==
    [user_id |-> User(1), oauth_consumer_key |-> PyStr(<<>>),
     lis_result_sourcedid |-> PyStr(SidCourse), lis_outcome_service_url |-> PyStr(UrlHttps),
     is_correct |-> PyBool(TRUE), attempt_type |-> PyStr(Str_submit),
     created_at |-> PyDatetime(Stamp0)]

AggregateFlags ==
    {PyBool(FALSE), PyNone, PyInt(0), PyInt(1), PyInt(2), PyFloat(0), PyFloat(5),
     PyStr(<<"t", "r", "u", "e">>), PyStr(<<"T", "R", "U", "E">>), PyStr(<<"1">>),
     PyStr(<<"t">>), PyStr(<<"Y", "e", "s">>), PyStr(<<"n", "o">>), PyStr(<<"0">>),
     PyStr(<<>>)}

AggregateTypes == {PyStr(Str_run), PyStr(<<"R", "u", "n">>), PyNone}

AggregateCreated ==
    {PyDatetime(Stamp1), PyDatetime(Stamp2), PyStr(Created_1), PyStr(Created_no_fraction),
     PyStr(Created_bad_day), PyStr(<<>>), PyNone, PyInt(5), PyInt(0)}

AggregateRecords ==
    {GoodRecord, [GoodRecord EXCEPT !.user_id = User(2)],
     [GoodRecord EXCEPT !.attempt_type = PyStr(Str_run), !.is_correct = PyBool(FALSE)]}
    \cup {[GoodRecord EXCEPT !.is_correct = x] : x \in AggregateFlags}
    \cup {[GoodRecord EXCEPT !.attempt_type = x] : x \in AggregateTypes}
    \cup {[GoodRecord EXCEPT !.created_at = x] : x \in AggregateCreated}
    \cup {[GoodRecord EXCEPT ![f] = PyMissing] :
              f \in {"user_id", "attempt_type", "is_correct", "created_at"}}

AggregateInputs == ListsUpTo(AggregateRecords, MaxRecords)

VARIABLES
    \* the PostgreSQL server
    tableExists,    \* committed catalog: student_attempts exists
    table,          \* committed rows of student_attempts, in commit order
    \* per process: its DatabaseHandler's session
    sess,           \* conn: __connection, "none", "open" or "closed"
                    \* tx: the session's transaction, "none", "open" or "aborted"
                    \* pendCreate: CREATE TABLE ran in the open transaction
                    \* pendRows: rows inserted in the open transaction
                    \* opened: connections the process has established
                    \* lost: connections of the process that were closed
    \* per process: the handler call in progress
    call,           \* pc: position in the method
                    \* processed_data, batch_size: insert_data's arguments
                    \* batch_num, rowcount, inserted_count: insert_data's locals
                    \* stmt: index in the batch of execute_batch's next statement
                    \* result: outcome of the call
    \* per process: what the current insert_data call really did
    hist,           \* added: rows the call has committed
                    \* okSum: sum of the counts of the chunks that committed
                    \* okChunks, failedChunks: batch numbers committed / rolled back
                    \* tableAtCall: the committed rows when the call began
                    \* prevData: <<data>> of the session's previous insert_data
                    \*   call if it returned with no chunk failed, else <<>>
                    \* prevOp: the method the session called before it
                    \* seen: the committed keys when the current chunk began
                    \* undone: rows inserted by the call that a rollback discarded
    calls,          \* handler calls made so far
    fails,          \* storage errors injected so far
    raced,          \* an insert was skipped for a key that another session
                    \* committed after the chunk had begun
    \* main()
    mpc,            \* position in main
    response,       \* APIClient: whether self.data was set, and self.data
    raw_data,       \* main's raw_data
    validated,      \* main's processed_data
    statistics,     \* main's statistics
    events          \* what the run has done, in order

dbVars == <<tableExists, table>>
handlerVars == <<sess, call, hist, calls, fails, raced>>
mainVars == <<mpc, response, raw_data, validated, statistics, events>>
vars == <<dbVars, handlerVars, mainVars>>

\* outcome of a handler call: the method, how it ended, and the value returned
\* (test_connection's True and False are 1 and 0)
NoCall == [op |-> "none", kind |-> "none", val |-> 0]
Running(method) == [op |-> method, kind |-> "none", val |-> 0]
Returned(method, v) == [op |-> method, kind |-> "return", val |-> v]
Raised(method) == [op |-> method, kind |-> "raise", val |-> 0]

(***************************************************************************)
(* The UNIQUE constraint and the ON CONFLICT target of the INSERT.         *)
(***************************************************************************)
NaturalKey(r) == <<r.user_id, r.lis_result_sourcedid, r.attempt_type, r.created_at>>

KeysOf(rows) == {NaturalKey(rows[i]) : i \in 1..Len(rows)}

NoSession ==
    [conn |-> "none", tx |-> "none", pendCreate |-> FALSE, pendRows |-> <<>>,
     opened |-> 0, lost |-> 0]

IdleCall ==
    [pc |-> "idle", processed_data |-> <<>>, batch_size |-> 1, batch_num |-> 0,
     stmt |-> 1, rowcount |-> 0, inserted_count |-> 0, result |-> NoCall]

NoHistory ==
    [added |-> 0, okSum |-> 0, okChunks |-> {}, failedChunks |-> {},
     tableAtCall |-> <<>>, prevData |-> <<>>, prevOp |-> "none", seen |-> {},
     undone |-> 0]

InitDb ==
    /\ tableExists \in BOOLEAN
    /\ table = <<>>

InitHandlers ==
    /\ sess = [p \in Procs |-> NoSession]
    /\ call = [p \in Procs |-> IdleCall]
    /\ hist = [p \in Procs |-> NoHistory]
    /\ calls = 0
    /\ fails = 0
    /\ raced = FALSE

MainOff ==
    /\ mpc = "off"
    /\ response = [has_data |-> FALSE, data |-> <<>>]
    /\ raw_data = <<>>
    /\ validated = <<>>
    /\ statistics = NoStatistics
    /\ events = <<>>

Init == InitDb /\ InitHandlers /\ MainOff

(***************************************************************************)
(* The server: what one session sees and does.                             *)
(***************************************************************************)
\* the table is visible to session p (committed, or created in p's transaction)
Visible(p) == tableExists \/ sess[p].pendCreate

\* mutant of Conflicts: the conflict target also covers the non-key columns
ConflictsOnWholeRow(p, r) ==
    \E i \in 1..Len(table \o sess[p].pendRows) : (table \o sess[p].pendRows)[i] = r

\* ON CONFLICT (user_id, lis_result_sourcedid, attempt_type, created_at) DO NOTHING
\* against the UNIQUE constraint unique_attempt: the row's key is already held
\* by a committed row or by a row of the session's own transaction
Conflicts(p, r) == NaturalKey(r) \in KeysOf(table) \cup KeysOf(sess[p].pendRows)

\* mutant of MustWait: the insert does not wait for the other transaction
NeverWaits(p, r) == FALSE

\* the row's key is held by an uncommitted row of another session: the insert
\* waits for that transaction to end
MustWait(p, r) == \E q \in Procs \ {p} : NaturalKey(r) \in KeysOf(sess[q].pendRows)

\* mutant of Rollback: the rows inserted in the transaction stay pending
RollbackKeepsRows(s) == [s EXCEPT !.tx = "none"]

\* connection.rollback(): the open transaction's rows and DDL are discarded
Rollback(s) == [s EXCEPT !.tx = "none", !.pendRows = <<>>, !.pendCreate = FALSE]

\* psycopg2.connect: a fresh session
Connect(s) ==
    [conn |-> "open", tx |-> "none", pendCreate |-> FALSE, pendRows |-> <<>>,
     opened |-> s.opened + 1, lost |-> s.lost]

\* a storage error may be injected
CanFail == fails < MaxFail

\* a statement raises: the transaction is aborted already, or an error is injected
StatementFails(p, ok) == ~ok /\ (sess[p].tx = "aborted" \/ CanFail)

FailsAfter(p) == IF sess[p].tx = "aborted" THEN fails ELSE fails + 1

(***************************************************************************)
(* DatabaseHandler._get_connection, lines 26-36: connect when there is no  *)
(* open connection; a connection error is re-raised.  onError is what the  *)
(* calling method makes of the error.                                      *)
(***************************************************************************)
\* mutant of get_connection: every call connects anew
get_connection_anew(p, onOk, onError) ==
    \/ /\ sess' = [sess EXCEPT ![p] = Connect(@)]
       /\ call' = [call EXCEPT ![p].pc = onOk]
       /\ UNCHANGED fails
    \/ /\ CanFail
       /\ fails' = fails + 1
       /\ call' = [call EXCEPT ![p].pc = "done", ![p].result = onError]
       /\ UNCHANGED sess

get_connection(p, onOk, onError) ==
    \/ /\ sess[p].conn = "open"
       /\ call' = [call EXCEPT ![p].pc = onOk]
       /\ UNCHANGED <<sess, fails>>
    \/ /\ sess[p].conn # "open"
       /\ sess' = [sess EXCEPT ![p] = Connect(@)]
       /\ call' = [call EXCEPT ![p].pc = onOk]
       /\ UNCHANGED fails
    \/ /\ sess[p].conn # "open"
       /\ CanFail
       /\ fails' = fails + 1
       /\ call' = [call EXCEPT ![p].pc = "done", ![p].result = onError]
       /\ UNCHANGED sess

(***************************************************************************)
(* DatabaseHandler.insert_data                                            *)
(***************************************************************************)
Min(a, b) == IF a < b THEN a ELSE b

\* mutant of total_batches: a last chunk that is not full is dropped
total_batches_floor(c) == Len(c.processed_data) \div c.batch_size

total_batches(c) == (Len(c.processed_data) + c.batch_size - 1) \div c.batch_size

start_idx(c) == c.batch_num * c.batch_size

end_idx(c) == Min(start_idx(c) + c.batch_size, Len(c.processed_data))

\* data_to_insert[start_idx:end_idx]
batch(c) == SubSeq(c.processed_data, start_idx(c) + 1, end_idx(c))

\* entry, lines 157-163
insert_data(p, data, bs) ==
    /\ call[p].pc = "idle"
    /\ call' = [call EXCEPT ![p] =
           [pc |-> IF data = <<>> THEN "done" ELSE "ins_conn",
            processed_data |-> data, batch_size |-> bs, batch_num |-> 0, stmt |-> 1,
            rowcount |-> 0, inserted_count |-> 0,
            result |-> IF data = <<>> THEN Returned("insert_data", 0)
                       ELSE Running("insert_data")]]
    /\ hist' = [hist EXCEPT ![p] =
           [added |-> 0, okSum |-> 0, okChunks |-> {}, failedChunks |-> {},
            tableAtCall |-> table,
            prevData |-> IF /\ call[p].result = Returned("insert_data", call[p].result.val)
                            /\ hist[p].failedChunks = {}
                         THEN <<call[p].processed_data>> ELSE <<>>,
            prevOp |-> call[p].result.op,
            seen |-> KeysOf(table),
            undone |-> 0]]

\* lines 170-171; a connection error leaves connection = None and lines 235-239
\* re-raise it
InsConnect(p) ==
    /\ call[p].pc = "ins_conn"
    /\ get_connection(p, "ins_exists", Raised("insert_data"))
    /\ UNCHANGED <<dbVars, hist, calls, raced, mainVars>>

\* _table_exists, lines 47-61: an error is logged and answered with False,
\* leaving the transaction aborted
table_exists(p) ==
    /\ call[p].pc = "ins_exists"
    /\ \E ok \in BOOLEAN :
         \/ /\ ok /\ sess[p].tx # "aborted"
            /\ sess' = [sess EXCEPT ![p].tx = "open"]
            /\ call' = [call EXCEPT ![p].pc = IF Visible(p) THEN "ins_stmt" ELSE "ins_create"]
            /\ UNCHANGED fails
         \/ /\ StatementFails(p, ok)
            /\ sess' = [sess EXCEPT ![p].tx = "aborted"]
            /\ call' = [call EXCEPT ![p].pc = "ins_create"]
            /\ fails' = FailsAfter(p)
    /\ UNCHANGED <<dbVars, hist, calls, raced, mainVars>>

\* _create_table, lines 63-94, and the handler at lines 235-239: an error is
\* re-raised after a rollback
create_table(p) ==
    /\ call[p].pc = "ins_create"
    /\ \E ok \in BOOLEAN :
         \/ /\ ok /\ sess[p].tx # "aborted"
            \* CREATE TABLE IF NOT EXISTS waits for a concurrent creation to end
            /\ tableExists \/ \A q \in Procs \ {p} : ~sess[q].pendCreate
            /\ sess' = [sess EXCEPT ![p].tx = "open", ![p].pendCreate = ~tableExists]
            /\ call' = [call EXCEPT ![p].pc = "ins_stmt"]
            /\ UNCHANGED fails
         \/ /\ StatementFails(p, ok)
            /\ sess' = [sess EXCEPT ![p] = Rollback(@)]
            /\ call' = [call EXCEPT ![p].pc = "done", ![p].result = Raised("insert_data")]
            /\ fails' = FailsAfter(p)
    /\ UNCHANGED <<dbVars, hist, calls, raced, mainVars>>

\* after a chunk: the next iteration of the loop at line 203, or lines 226-233
NextChunk(c, count) ==
    IF c.batch_num + 1 < total_batches(c)
    THEN [c EXCEPT !.batch_num = c.batch_num + 1, !.stmt = 1, !.pc = "ins_stmt",
                   !.inserted_count = count]
    ELSE [c EXCEPT !.pc = "done", !.inserted_count = count,
                   !.result = Returned("insert_data", count)]

\* _check_duplicates(cursor, data_chunk), lines 96-147: the chunk without the
\* rows whose key the join of the staged keys with the table finds (no line of
\* insert_data calls it)
check_duplicates(p, data_chunk) ==
    SelectSeq(data_chunk,
              LAMBDA r : NaturalKey(r) \notin KeysOf(table) \cup KeysOf(sess[p].pendRows))

\* cursor.rowcount after one INSERT ... ON CONFLICT DO NOTHING
StmtRowcount(p, r) == IF Conflicts(p, r) THEN 0 ELSE 1

\* mutant of InsertStmt: the INSERT has no ON CONFLICT clause, so a row whose
\* key is held violates the UNIQUE constraint and aborts the transaction
InsertStmtUnguarded(p) ==
    /\ call[p].pc = "ins_stmt"
    /\ sess[p].tx # "aborted"
    /\ Visible(p)
    /\ LET c == call[p]
           r == batch(c)[c.stmt]
       IN /\ ~Conflicts(p, r) => ~MustWait(p, r)
          /\ sess' = [sess EXCEPT ![p].tx = IF Conflicts(p, r) THEN "aborted" ELSE "open",
                                  ![p].pendRows = IF Conflicts(p, r) THEN @ ELSE Append(@, r)]
          /\ call' = IF Conflicts(p, r) THEN call
                     ELSE [call EXCEPT ![p].rowcount = 1,
                                  ![p].stmt = IF c.stmt < Len(batch(c)) THEN c.stmt + 1 ELSE c.stmt,
                                  ![p].pc = IF c.stmt < Len(batch(c)) THEN "ins_stmt" ELSE "ins_commit"]
          /\ raced' = (raced \/ NaturalKey(r) \in KeysOf(table) \ hist[p].seen)
    /\ UNCHANGED <<dbVars, hist, calls, fails, mainVars>>

\* one statement of execute_batch(cursor, insert_query, batch), line 209
InsertStmt(p) ==
    /\ call[p].pc = "ins_stmt"
    /\ sess[p].tx # "aborted"
    /\ Visible(p)
    /\ LET c == call[p]
           r == batch(c)[c.stmt]
       IN /\ ~Conflicts(p, r) => ~MustWait(p, r)
          /\ sess' = [sess EXCEPT ![p].tx = "open",
                                  ![p].pendRows = IF Conflicts(p, r) THEN @ ELSE Append(@, r)]
          /\ call' = [call EXCEPT ![p].rowcount = StmtRowcount(p, r),
                                  ![p].stmt = IF c.stmt < Len(batch(c)) THEN c.stmt + 1 ELSE c.stmt,
                                  ![p].pc = IF c.stmt < Len(batch(c)) THEN "ins_stmt" ELSE "ins_commit"]
          /\ raced' = (raced \/ NaturalKey(r) \in KeysOf(table) \ hist[p].seen)
    /\ UNCHANGED <<dbVars, hist, calls, fails, mainVars>>

\* mutant of InsertError: the error is re-raised instead of skipping the chunk
InsertErrorReraised(p) ==
    /\ call[p].pc = "ins_stmt"
    /\ IF sess[p].tx = "aborted" \/ ~Visible(p)
       THEN fails' = fails
       ELSE CanFail /\ fails' = fails + 1
    /\ sess' = [sess EXCEPT ![p] = Rollback(@)]
    /\ call' = [call EXCEPT ![p].pc = "done", ![p].result = Raised("insert_data")]
    /\ hist' = [hist EXCEPT ![p].failedChunks = @ \cup {call[p].batch_num},
                            ![p].seen = KeysOf(table),
                            ![p].undone = @ + Len(sess[p].pendRows)]
    /\ UNCHANGED <<dbVars, calls, raced, mainVars>>

\* a statement of the batch raises psycopg2.Error (the table is missing, or a
\* storage error): lines 220-224 roll the chunk back and continue
InsertError(p) ==
    /\ call[p].pc = "ins_stmt"
    /\ IF sess[p].tx = "aborted" \/ ~Visible(p)
       THEN fails' = fails
       ELSE CanFail /\ fails' = fails + 1
    /\ sess' = [sess EXCEPT ![p] = Rollback(@)]
    /\ call' = [call EXCEPT ![p] = NextChunk(@, @.inserted_count)]
    /\ hist' = [hist EXCEPT ![p].failedChunks = @ \cup {call[p].batch_num},
                            ![p].seen = KeysOf(table),
                            ![p].undone = @ + Len(sess[p].pendRows)]
    /\ UNCHANGED <<dbVars, calls, raced, mainVars>>

\* mutant of CommitChunk: the statement is an upsert, so committing a chunk
\* replaces the committed rows that hold the key of one of its records
CommitChunkReplacing(p) ==
    /\ call[p].pc = "ins_commit"
    /\ table' = SelectSeq(table, LAMBDA row : NaturalKey(row) \notin KeysOf(batch(call[p])))
                    \o batch(call[p])
    /\ tableExists' = (tableExists \/ sess[p].pendCreate)
    /\ sess' = [sess EXCEPT ![p].tx = "none", ![p].pendRows = <<>>, ![p].pendCreate = FALSE]
    /\ call' = [call EXCEPT ![p] = NextChunk(@, @.inserted_count + @.rowcount)]
    /\ hist' = [hist EXCEPT ![p].added = @ + Len(sess[p].pendRows),
                            ![p].okSum = @ + call[p].rowcount,
                            ![p].okChunks = @ \cup {call[p].batch_num},
                            ![p].seen = KeysOf(table')]
    /\ UNCHANGED <<calls, fails, raced, mainVars>>

\* lines 210-218: the chunk's count is cursor.rowcount, which after
\* execute_batch is the rowcount of the last statement it ran; then commit
CommitChunk(p) ==
    /\ call[p].pc = "ins_commit"
    /\ table' = table \o sess[p].pendRows
    /\ tableExists' = (tableExists \/ sess[p].pendCreate)
    /\ sess' = [sess EXCEPT ![p].tx = "none", ![p].pendRows = <<>>, ![p].pendCreate = FALSE]
    /\ call' = [call EXCEPT ![p] = NextChunk(@, @.inserted_count + @.rowcount)]
    /\ hist' = [hist EXCEPT ![p].added = @ + Len(sess[p].pendRows),
                            ![p].okSum = @ + call[p].rowcount,
                            ![p].okChunks = @ \cup {call[p].batch_num},
                            ![p].seen = KeysOf(table \o sess[p].pendRows)]
    /\ UNCHANGED <<calls, fails, raced, mainVars>>

(***************************************************************************)
(* DatabaseHandler.test_connection                                        *)
(***************************************************************************)
test_connection(p) ==
    /\ call[p].pc = "idle"
    /\ call' = [call EXCEPT ![p].pc = "tc_conn", ![p].result = Running("test_connection")]

\* line 296; a connection error is answered with False (lines 303-305)
TestConnect(p) ==
    /\ call[p].pc = "tc_conn"
    /\ get_connection(p, "tc_exec", Returned("test_connection", 0))
    /\ UNCHANGED <<dbVars, hist, calls, raced, mainVars>>

\* lines 297-305: SELECT version() opens a transaction that is left open; an
\* error is answered with False and nothing is rolled back
TestExecute(p) ==
    /\ call[p].pc = "tc_exec"
    /\ \E ok \in BOOLEAN :
         \/ /\ ok /\ sess[p].tx # "aborted"
            /\ sess' = [sess EXCEPT ![p].tx = "open"]
            /\ call' = [call EXCEPT ![p].pc = "done",
                                    ![p].result = Returned("test_connection", 1)]
            /\ UNCHANGED fails
         \/ /\ StatementFails(p, ok)
            /\ sess' = [sess EXCEPT ![p].tx = "aborted"]
            /\ call' = [call EXCEPT ![p].pc = "done",
                                    ![p].result = Returned("test_connection", 0)]
            /\ fails' = FailsAfter(p)
    /\ UNCHANGED <<dbVars, hist, calls, raced, mainVars>>

(***************************************************************************)
(* DatabaseHandler.get_stats                                              *)
(***************************************************************************)
get_stats(p) ==
    /\ call[p].pc = "idle"
    /\ call' = [call EXCEPT ![p].pc = "gs_conn", ![p].result = Running("get_stats")]

\* line 253; a connection error is answered with None (lines 285-287)
StatsConnect(p) ==
    /\ call[p].pc = "gs_conn"
    /\ get_connection(p, "gs_query", Returned("get_stats", 0))
    /\ UNCHANGED <<dbVars, hist, calls, raced, mainVars>>

\* lines 269-291: the query reads the table in a transaction that is left
\* open and answers the dict (1); an error (the table is missing, the
\* transaction is aborted already, or a storage error) is answered with None
\* (0) and nothing is rolled back
StatsQuery(p) ==
    /\ call[p].pc = "gs_query"
    /\ \E ok \in BOOLEAN :
         \/ /\ ok /\ sess[p].tx # "aborted" /\ Visible(p)
            /\ sess' = [sess EXCEPT ![p].tx = "open"]
            /\ call' = [call EXCEPT ![p].pc = "done", ![p].result = Returned("get_stats", 1)]
            /\ UNCHANGED fails
         \/ /\ ~ok /\ (sess[p].tx = "aborted" \/ ~Visible(p) \/ CanFail)
            /\ sess' = [sess EXCEPT ![p].tx = "aborted"]
            /\ call' = [call EXCEPT ![p].pc = "done", ![p].result = Returned("get_stats", 0)]
            /\ fails' = IF sess[p].tx = "aborted" \/ ~Visible(p) THEN fails ELSE fails + 1
    /\ UNCHANGED <<dbVars, hist, calls, raced, mainVars>>

StatsStep(p) == StatsConnect(p) \/ StatsQuery(p)

\* the steps inside the handler's methods
HandlerStep(p) ==
    \/ InsConnect(p)
    \/ table_exists(p)
    \/ create_table(p)
    \/ InsertStmt(p)
    \/ InsertError(p)
    \/ CommitChunk(p)
    \/ TestConnect(p)
    \/ TestExecute(p)

(***************************************************************************)
(* The handler driven directly: any process calls insert_data,             *)
(* test_connection and get_stats in any order, with any arguments.         *)
(***************************************************************************)
CallInsertData(p) ==
    /\ calls < MaxCalls
    /\ calls' = calls + 1
    /\ \E data \in LoadInputs, bs \in 1..MaxBatch : insert_data(p, data, bs)
    /\ UNCHANGED <<dbVars, sess, fails, raced, mainVars>>

CallTestConnection(p) ==
    /\ calls < MaxCalls
    /\ calls' = calls + 1
    /\ test_connection(p)
    /\ UNCHANGED <<dbVars, sess, hist, fails, raced, mainVars>>

CallGetStats(p) ==
    /\ calls < MaxCalls
    /\ calls' = calls + 1
    /\ get_stats(p)
    /\ UNCHANGED <<dbVars, sess, hist, fails, raced, mainVars>>

\* the caller takes the result
CallReturns(p) ==
    /\ call[p].pc = "done"
    /\ call' = [call EXCEPT ![p].pc = "idle"]
    /\ UNCHANGED <<dbVars, sess, hist, calls, fails, raced, mainVars>>

Next ==
    \/ \E p \in Procs : CallInsertData(p)
    \/ \E p \in Procs : CallTestConnection(p)
    \/ \E p \in Procs : CallGetStats(p)
    \/ \E p \in Procs : CallReturns(p)
    \/ \E p \in Procs : HandlerStep(p)
    \/ \E p \in Procs : StatsStep(p)

Spec == Init /\ [][Next]_vars

(***************************************************************************)
(* One process calling its handler while the server may close its          *)
(* connection between two calls (connection.closed becomes true; the       *)
(* server discards the open transaction).                                  *)
(***************************************************************************)
ConnectionLost ==
    /\ call[1].pc = "idle"
    /\ sess[1].conn = "open"
    /\ sess[1].lost < MaxLost
    /\ sess' = [sess EXCEPT ![1] = [Rollback(@) EXCEPT !.conn = "closed", !.lost = @ + 1]]
    /\ UNCHANGED <<dbVars, call, hist, calls, fails, raced, mainVars>>

NextConnection ==
    \/ CallInsertData(1)
    \/ CallTestConnection(1)
    \/ CallGetStats(1)
    \/ CallReturns(1)
    \/ HandlerStep(1)
    \/ StatsStep(1)
    \/ ConnectionLost

SpecConnection == Init /\ [][NextConnection]_vars

(***************************************************************************)
(* One process loading longer lists in chunks: lists of up to MaxItems     *)
(* records with batch sizes up to MaxChunk, and 150 records with the       *)
(* default batch size of 100.                                              *)
(***************************************************************************)
LongList(n) == [i \in 1..n |-> LoadRecord(i % 10, (i \div 10) % 2 = 0)]

CallInsertChunks ==
    /\ calls < MaxCalls
    /\ calls' = calls + 1
    /\ \/ \E n \in 0..MaxItems, bs \in 1..MaxChunk : insert_data(1, LongList(n), bs)
       \/ insert_data(1, LongList(150), 100)
    /\ UNCHANGED <<dbVars, sess, fails, raced, mainVars>>

NextChunks ==
    \/ CallInsertChunks
    \/ CallReturns(1)
    \/ InsConnect(1)
    \/ table_exists(1)
    \/ create_table(1)
    \/ InsertStmt(1)
    \/ InsertError(1)
    \/ CommitChunk(1)

SpecChunks == Init /\ [][NextChunks]_vars

(***************************************************************************)
(* main(): one ETL run of process 1.  events records, in order, the error  *)
(* lines logged by main, the steps started, and the notifications sent     *)
(* with the outcome of their delivery.                                     *)
(***************************************************************************)
InitMain ==
    /\ mpc = "request"
    /\ response = [has_data |-> FALSE, data |-> <<>>]
    /\ raw_data = <<>>
    /\ validated = <<>>
    /\ statistics = NoStatistics
    /\ events = <<>>

\* line 34, APIClient.request_data: the request fails and the error is logged,
\* leaving self.data unset; or response.json() raises; or self.data is set
MainRequest ==
    /\ mpc = "request"
    /\ \/ /\ \E data \in ApiInputs : response' = [has_data |-> TRUE, data |-> data]
          /\ mpc' = "unpack"
          /\ UNCHANGED events
       \/ /\ mpc' = "unpack"
          /\ events' = Append(events, "request_error")
          /\ UNCHANGED response
       \/ /\ mpc' = "except"
          /\ UNCHANGED <<response, events>>
    /\ UNCHANGED <<dbVars, handlerVars, raw_data, validated, statistics>>

\* lines 35-39
MainUnpack ==
    /\ mpc = "unpack"
    /\ LET r == get_unpacked_data(response)
       IN IF r.raised
          THEN mpc' = "except" /\ UNCHANGED <<raw_data, events>>
          ELSE /\ raw_data' = r.out
               /\ mpc' = IF r.out = <<>> THEN "done" ELSE "transform"
               /\ events' = IF r.out = <<>> THEN Append(events, "no_data") ELSE events
    /\ UNCHANGED <<dbVars, handlerVars, response, validated, statistics>>

\* lines 43-47
MainTransform ==
    /\ mpc = "transform"
    /\ LET r == process_data(raw_data)
       IN IF r.raised
          THEN mpc' = "except" /\ events' = Append(events, "transform") /\ UNCHANGED validated
          ELSE /\ validated' = r.out
               /\ mpc' = IF r.out = <<>> THEN "done" ELSE "statistics"
               /\ events' = events \o (IF r.out = <<>> THEN <<"transform", "no_valid_data">>
                                       ELSE <<"transform">>)
    /\ UNCHANGED <<dbVars, handlerVars, response, raw_data, statistics>>

\* line 51
MainStatistics ==
    /\ mpc = "statistics"
    /\ statistics' = get_statistics(validated)
    /\ events' = Append(events, "statistics")
    /\ mpc' = IF Escapes(validated) THEN "except" ELSE "test"
    /\ UNCHANGED <<dbVars, handlerVars, response, raw_data, validated>>

\* line 65: test_connection is called
MainTest ==
    /\ mpc = "test"
    /\ test_connection(1)
    /\ mpc' = "tested"
    /\ UNCHANGED <<dbVars, sess, hist, calls, fails, raced>>
    /\ UNCHANGED <<response, raw_data, validated, statistics, events>>

\* line 65: the load is skipped when test_connection answers False
MainTested ==
    /\ mpc = "tested"
    /\ call[1].pc = "done"
    /\ call' = [call EXCEPT ![1].pc = "idle"]
    /\ mpc' = IF call[1].result.val = 1 THEN "load" ELSE "export"
    /\ UNCHANGED <<dbVars, sess, hist, calls, fails, raced>>
    /\ UNCHANGED <<response, raw_data, validated, statistics, events>>

\* mutant of MainLoad: main goes on without waiting for the load to return
MainLoadDetached ==
    /\ mpc = "load"
    /\ \E bs \in 1..MaxBatch : insert_data(1, validated, bs)
    /\ mpc' = "export"
    /\ events' = Append(events, "load")
    /\ UNCHANGED <<dbVars, sess, calls, fails, raced>>
    /\ UNCHANGED <<response, raw_data, validated, statistics>>

\* lines 66-69: insert_data is called
MainLoad ==
    /\ mpc = "load"
    /\ \E bs \in 1..MaxBatch : insert_data(1, validated, bs)
    /\ mpc' = "loaded"
    /\ events' = Append(events, "load")
    /\ UNCHANGED <<dbVars, sess, calls, fails, raced>>
    /\ UNCHANGED <<response, raw_data, validated, statistics>>

\* lines 66-70: insert_data returns, or its exception reaches line 110
MainLoaded ==
    /\ mpc = "loaded"
    /\ call[1].pc = "done"
    /\ call' = [call EXCEPT ![1].pc = "idle"]
    /\ mpc' = IF call[1].result.kind = "raise" THEN "except" ELSE "export"
    /\ UNCHANGED <<dbVars, sess, hist, calls, fails, raced>>
    /\ UNCHANGED <<response, raw_data, validated, statistics, events>>

\* lines 74-81: GoogleSheetsExporter's constructor re-raises a failure to set
\* the client up; export_stats catches its own failures
MainExport ==
    /\ mpc = "export"
    /\ IF statistics.present
       THEN \E ok \in BOOLEAN :
               /\ mpc' = IF ok THEN "notify" ELSE "except"
               /\ events' = Append(events, IF ok THEN "export" ELSE "export_setup_failed")
       ELSE mpc' = "notify" /\ UNCHANGED events
    /\ UNCHANGED <<dbVars, handlerVars, response, raw_data, validated, statistics>>

\* mutant of MainNotify: a notification that was not delivered raises into
\* the handler of main
MainNotifyRaising ==
    /\ mpc = "notify"
    /\ \E ok \in BOOLEAN :
          /\ events' = events \o <<IF statistics.present THEN "notify_statistics"
                                   ELSE "notify_simple",
                                   IF ok THEN "delivered" ELSE "undelivered">>
          /\ mpc' = IF ok THEN "done" ELSE "except"
    /\ UNCHANGED <<dbVars, handlerVars, response, raw_data, validated, statistics>>

\* lines 85-104: the notification of a finished run; _send_email answers
\* whether it was delivered
MainNotify ==
    /\ mpc = "notify"
    /\ \E ok \in BOOLEAN :
          events' = events \o <<IF statistics.present THEN "notify_statistics"
                                ELSE "notify_simple",
                                IF ok THEN "delivered" ELSE "undelivered">>
    /\ mpc' = "done"
    /\ UNCHANGED <<dbVars, handlerVars, response, raw_data, validated, statistics>>

\* lines 110-128: any exception of the run is logged and notified
MainExcept ==
    /\ mpc = "except"
    /\ \E ok \in BOOLEAN :
          events' = events \o <<"critical_error", "notify_error",
                                IF ok THEN "delivered" ELSE "undelivered">>
    /\ mpc' = "done"
    /\ UNCHANGED <<dbVars, handlerVars, response, raw_data, validated, statistics>>

MainStep ==
    \/ MainRequest
    \/ MainUnpack
    \/ MainTransform
    \/ MainStatistics
    \/ MainTest
    \/ MainTested
    \/ MainLoad
    \/ MainLoaded
    \/ MainExport
    \/ MainNotify
    \/ MainExcept

InitRun == InitDb /\ InitHandlers /\ InitMain

NextMain == MainStep \/ HandlerStep(1)

SpecMain == InitRun /\ [][NextMain]_vars

(***************************************************************************)
(* process_data and get_statistics applied to any list of unpacked rows.   *)
(***************************************************************************)
InitValidate ==
    /\ tableExists = TRUE
    /\ table = <<>>
    /\ InitHandlers
    /\ mpc = "unit"
    /\ response = [has_data |-> FALSE, data |-> <<>>]
    /\ raw_data \in ValidateInputs
    /\ validated = <<>>
    /\ statistics = NoStatistics
    /\ events = <<>>

\* processed_data = DataProcessor.process_data(raw_data, logger); events takes
\* the debug lines
ProcessData ==
    /\ mpc = "unit"
    /\ LET r == process_data(raw_data)
       IN /\ validated' = r.out
          /\ events' = r.log
          /\ mpc' = IF r.raised THEN "unit_raised" ELSE "unit_validated"
    /\ UNCHANGED <<dbVars, handlerVars, response, raw_data, statistics>>

\* statistics = DataProcessor.get_statistics(processed_data, logger)
GetStatistics ==
    /\ mpc = "unit_validated"
    /\ statistics' = get_statistics(validated)
    /\ mpc' = IF Escapes(validated) THEN "unit_raised" ELSE "unit_done"
    /\ UNCHANGED <<dbVars, handlerVars, response, raw_data, validated, events>>

NextValidate == ProcessData \/ GetStatistics

SpecValidate == InitValidate /\ [][NextValidate]_vars

(***************************************************************************)
(* get_statistics applied to any list of records, validated or not.        *)
(***************************************************************************)
InitAggregate ==
    /\ tableExists = TRUE
    /\ table = <<>>
    /\ InitHandlers
    /\ mpc = "unit_validated"
    /\ response = [has_data |-> FALSE, data |-> <<>>]
    /\ raw_data = <<>>
    /\ validated \in AggregateInputs
    /\ statistics = NoStatistics
    /\ events = <<>>

SpecAggregate == InitAggregate /\ [][GetStatistics]_vars

(***************************************************************************)
(* get_statistics on its own and inside a run.                             *)
(***************************************************************************)
InitSummary == InitRun \/ InitAggregate

NextSummary == NextMain \/ GetStatistics

SpecSummary == InitSummary /\ [][NextSummary]_vars

(***************************************************************************)
(* Properties of the loader (specification Spec).                          *)
(***************************************************************************)
HasDuplicateKey(rows) ==
    \E i, j \in 1..Len(rows) : i # j /\ NaturalKey(rows[i]) = NaturalKey(rows[j])

\* an insert_data call of process p has returned normally
LoadReturned(p) ==
    /\ call[p].pc = "done"
    /\ call[p].result.op = "insert_data"
    /\ call[p].result.kind = "return"

\* C1: whatever insert_data calls were made, with whatever inputs, batch sizes
\* and chunk failures, no two committed rows of the table have the same
\* natural key (user_id, lis_result_sourcedid, attempt_type, created_at).
C1_UniqueNaturalKey == ~HasDuplicateKey(table)

\* C1 witness: a load has returned whose input offered one natural key twice,
\* with different is_correct, and a row is persisted.
C1_Witness ==
    \E p \in Procs :
        /\ LoadReturned(p)
        /\ Len(call[p].processed_data) = 2
        /\ call[p].processed_data[1] # call[p].processed_data[2]
        /\ Cardinality(KeysOf(call[p].processed_data)) = 1
        /\ Len(table) >= 1

\* C2 (as claimed): with no storage failure and no other process, a load of a
\* non-empty list whose keys are not yet persisted returns a non-zero count,
\* and a second load of the same list returns 0 and leaves the table as it was.
C2_IdempotentLoad ==
    \A p \in Procs :
        ( /\ LoadReturned(p)
          /\ fails = 0
          /\ \A q \in Procs \ {p} : call[q].result.op = "none"
          /\ call[p].processed_data # <<>> )
        => /\ KeysOf(call[p].processed_data) \cap KeysOf(hist[p].tableAtCall) = {}
              => call[p].result.val > 0
           /\ hist[p].prevData = <<call[p].processed_data>>
              => call[p].result.val = 0 /\ table = hist[p].tableAtCall

\* C3: while two processes load overlapping records concurrently, in every
\* interleaving of their statements and commits no natural key is held twice:
\* neither by two committed rows, nor by a committed row and an uncommitted
\* one, nor by the uncommitted rows of the two transactions.  Only the
\* conflict guard of the INSERT provides this; the code takes no lock.
C3_NoKeyHeldTwice == ~HasDuplicateKey(table \o sess[1].pendRows \o sess[2].pendRows)

\* C3 witness: both processes have returned from insert_data, and an insert
\* was skipped for a key the other process committed after the chunk began.
C3_Witness == raced /\ \A p \in Procs : LoadReturned(p)

\* C4 (as claimed): the value insert_data returns is the number of rows the
\* call added to the table.
C4_CountIsRowsAdded ==
    \A p \in Procs : LoadReturned(p) => call[p].result.val = hist[p].added

\* C5: a storage error in a chunk's insert never makes insert_data raise: the
\* chunk is rolled back (the next chunk starts with an empty transaction and
\* nothing uncommitted is left at the end), every chunk is attempted, and the
\* returned count is the sum of the counts of the chunks that committed.
C5_ChunkFailureSkipped ==
    \A p \in Procs :
        /\ (call[p].result.op = "insert_data" /\ hist[p].failedChunks # {})
              => call[p].result.kind # "raise"
        /\ (call[p].pc = "ins_stmt" /\ call[p].stmt = 1)
              => sess[p].pendRows = <<>> /\ sess[p].tx # "aborted"
        /\ LoadReturned(p)
              => /\ sess[p].pendRows = <<>>
                 /\ call[p].result.val = hist[p].okSum
                 /\ hist[p].okChunks \cup hist[p].failedChunks = 0..(total_batches(call[p]) - 1)
                 /\ hist[p].okChunks \cap hist[p].failedChunks = {}

\* C5 witness: two chunks, the first committed and the second failed, and the
\* call returned the first chunk's count.
C5_Witness ==
    \E p \in Procs :
        /\ LoadReturned(p)
        /\ hist[p].okChunks = {0}
        /\ hist[p].failedChunks = {1}
        /\ call[p].result.val = 1
        /\ Len(table) = 1

(***************************************************************************)
(* The orchestrator (SpecMain).                                            *)
(***************************************************************************)
HasEvent(e) == \E i \in 1..Len(events) : events[i] = e

\* the run could not connect to the storage (test_connection answered False)
\* or the schema bootstrap failed (insert_data raised)
StorageFailed ==
    call[1].result \in {Returned("test_connection", 0), Raised("insert_data")}

SuccessNotified == HasEvent("notify_statistics") \/ HasEvent("notify_simple")

\* C6: a run whose storage connection or schema bootstrap failed ends with no
\* export, no success notification, and an error notification.
C6_StorageFailureAborts ==
    (mpc = "done" /\ StorageFailed)
        => /\ ~HasEvent("export")
           /\ ~SuccessNotified
           /\ HasEvent("notify_error")

\* C7: a finished run has an error notification only when the storage
\* connection or the schema bootstrap failed, and a run that reached the load
\* without such a failure has a success notification.
C7_ErrorOnlyForStorageFailure ==
    mpc = "done"
        => /\ HasEvent("notify_error") => StorageFailed
           /\ (HasEvent("load") /\ ~StorageFailed) => SuccessNotified

\* the fetch answered and no row of it unpacks
NoRawRows == response.has_data /\ Unpacked(response.data) = <<>>

\* validation ran and kept no record
NoValidRecords == HasEvent("transform") /\ validated = <<>>

\* C8: a finished run whose fetch yielded no raw rows, or whose validation
\* yielded no records, has logged the error and has done no aggregation, no
\* load, no export and sent no notification.
C8_EmptyShortCircuits ==
    (mpc = "done" /\ (NoRawRows \/ NoValidRecords))
        => /\ HasEvent("no_data") \/ HasEvent("no_valid_data")
           /\ \A e \in {"statistics", "load", "export", "notify_statistics",
                        "notify_simple", "notify_error"} : ~HasEvent(e)

(***************************************************************************)
(* The validator (SpecValidate).                                           *)
(***************************************************************************)
\* the invariants of a ValidatedAttempt
IsValidatedAttempt(r) ==
    /\ r.user_id.t = "str" /\ r.user_id.s # <<>>
    /\ r.lis_result_sourcedid.t = "str" /\ Contains(Str_course, r.lis_result_sourcedid.s)
    /\ r.lis_outcome_service_url.t = "str" /\ Contains(Str_https, r.lis_outcome_service_url.s)
    /\ r.is_correct.t = "bool"
    /\ r.attempt_type \in {PyStr(Str_run), PyStr(Str_submit)}
    /\ r.created_at.t = "datetime"

\* C9: every record process_data returns is a ValidatedAttempt: user_id a
\* non-empty string, lis_result_sourcedid a string containing "course",
\* lis_outcome_service_url a string containing "https", is_correct a boolean,
\* attempt_type "run" or "submit", created_at a parsed timestamp.
C9_OutputsAreValidatedAttempts ==
    mpc \in {"unit_validated", "unit_done"}
        => \A i \in 1..Len(validated) : IsValidatedAttempt(validated[i])

\* the raw values the correctness flag may have: None, the int 0, the int 1
ExactFlags == {PyNone, PyInt(0), PyInt(1)}

\* C10: process_data keeps a record only when its raw correctness flag is
\* exactly None, the int 0 or the int 1, and maps None and 0 to False and 1 to
\* True; a record with any other flag is rejected.
C10_FlagExactlyNoneZeroOne ==
    mpc \in {"unit_validated", "unit_done"}
        => /\ Len(validated) <=
                  Cardinality({i \in 1..Len(raw_data) : raw_data[i].is_correct \in ExactFlags})
           /\ (Len(raw_data) = 1 /\ Len(validated) = 1)
                  => validated[1].is_correct = PyBool(raw_data[1].is_correct = PyInt(1))

\* C11: process_data never raises: whatever the input list, a record with a
\* missing or wrongly typed field is skipped and the call returns the records
\* that passed.
C11_ProcessDataNeverRaises == mpc # "unit_raised"

\* the row carries a passback_params text that is closed and names the key
Names(row, key) == Contains(<<"'">> \o key \o <<"'", ":">>, row.passback_params.s)

\* the row's parameter block is there, closed, and names its three keys
BlockComplete(row) ==
    /\ row.passback_params.t = "str"
    /\ row.passback_params.s # <<>>
    /\ row.passback_params.s[Len(row.passback_params.s)] = "}"
    /\ Names(row, Key_oauth_consumer_key)
    /\ Names(row, Key_lis_result_sourcedid)
    /\ Names(row, Key_lis_outcome_service_url)

\* no record of the list stems from a row without a complete block
FromCompleteBlocks(records) ==
    /\ Len(records) <=
           Cardinality({i \in 1..Len(response.data) : BlockComplete(response.data[i])})
    /\ \A i \in 1..Len(records) :
           PyMissing \notin {records[i].oauth_consumer_key, records[i].lis_result_sourcedid,
                             records[i].lis_outcome_service_url}

\* C12: a raw row whose parameter block is missing, unparseable or lacks one
\* of its three keys is in neither the list passed to get_statistics nor the
\* list passed to insert_data.
C12_BlocklessRowsExcluded ==
    /\ HasEvent("statistics") => FromCompleteBlocks(validated)
    /\ call[1].result.op = "insert_data" => FromCompleteBlocks(call[1].processed_data)

\* a run whose answer had a row without a complete block has aggregated and
\* loaded the other rows
C12_Witness ==
    /\ mpc = "done"
    /\ HasEvent("statistics")
    /\ call[1].result = Returned("insert_data", call[1].result.val)
    /\ \E i \in 1..Len(response.data) : ~BlockComplete(response.data[i])

(***************************************************************************)
(* The aggregator (SpecAggregate).                                         *)
(***************************************************************************)
\* get_statistics has returned a summary
Summarized == mpc = "unit_done" /\ statistics.present

\* the number of records whose field f has a value of the set
Having(f, values) == Cardinality({i \in 1..Len(validated) : validated[i][f] \in values})

\* the flags offered that are boolean true, a truthy number, or one of the
\* words "true", "1", "t", "yes" in any case
CorrectFlags ==
    {PyBool(TRUE), PyInt(1), PyInt(2), PyFloat(5),
     PyStr(<<"t", "r", "u", "e">>), PyStr(<<"T", "R", "U", "E">>), PyStr(<<"1">>),
     PyStr(<<"t">>), PyStr(<<"Y", "e", "s">>)}

\* the flags offered that are boolean false, a falsy number, or another string
IncorrectFlags ==
    {PyBool(FALSE), PyInt(0), PyFloat(0), PyStr(<<"n", "o">>), PyStr(<<"0">>), PyStr(<<>>)}

\* C13: get_statistics counts a record as correct when is_correct is boolean
\* true, a truthy number or a string equal in any case to "true", "1", "t" or
\* "yes", and as incorrect for boolean false, a falsy number or any other
\* string; the Validator rejects the string flags the Aggregator counts.
C13_PermissiveCorrectness ==
    /\ Summarized =>
           /\ statistics.correct_attempts = Having("is_correct", CorrectFlags)
           /\ statistics.incorrect_attempts = Having("is_correct", IncorrectFlags)
    /\ \A x \in {PyStr(<<"t", "r", "u", "e">>), PyStr(<<"1">>)} :
           Rejection([GoodRow EXCEPT !.is_correct = x]) = "is_correct"

\* a summary of records among which a flag is the string "TRUE" and another
\* the string "no"
C13_Witness ==
    /\ Summarized
    /\ Having("is_correct", {PyStr(<<"T", "R", "U", "E">>)}) = 1
    /\ Having("is_correct", {PyStr(<<"n", "o">>)}) = 1
    /\ statistics.correct_attempts = 1
    /\ statistics.incorrect_attempts = 1

\* x is num / den rounded to two decimals
IsRounded(x, num, den) ==
    /\ ~x.inf
    /\ 2 * (x.h * den - 100 * num) <= den
    /\ 2 * (100 * num - x.h * den) <= den

\* the ratios of the summary are those of its counts
RatiosOfCounts(s) ==
    /\ IF s.submit_attempts = 0
       THEN s.success_rate = Hundredths(0) /\ s.run_to_submit_ratio = Infinity
       ELSE /\ IsRounded(s.success_rate, s.correct_attempts * 100, s.submit_attempts)
            /\ IsRounded(s.run_to_submit_ratio, s.run_attempts, s.submit_attempts)
    /\ IF s.unique_users = 0
       THEN s.avg_attempts_per_user = Hundredths(0)
       ELSE IsRounded(s.avg_attempts_per_user, s.total_records, s.unique_users)

\* the records are two submits, one correct and one incorrect, and one run,
\* all with boolean flags
TwoSubmitsOneRun ==
    /\ Len(validated) = 3
    /\ Having("is_correct", {PyBool(TRUE), PyBool(FALSE)}) = 3
    /\ Having("attempt_type", {PyStr(Str_run)}) = 1
    /\ \E i, j \in 1..3 :
          /\ validated[i].attempt_type = PyStr(Str_submit)
          /\ validated[i].is_correct = PyBool(TRUE)
          /\ validated[j].attempt_type = PyStr(Str_submit)
          /\ validated[j].is_correct = PyBool(FALSE)

\* C14: for a non-empty list, success_rate is correct_attempts*100 /
\* submit_attempts (0 without a submit), run_to_submit_ratio is run_attempts /
\* submit_attempts (infinity without a submit), avg_attempts_per_user is
\* total_records / unique users (0 without users), each rounded to 2 decimals;
\* two submits, one correct and one incorrect, and one run give success_rate
\* 50.0 and run_to_submit_ratio 0.5.
C14_DerivedRatios ==
    Summarized =>
        /\ RatiosOfCounts(statistics)
        /\ TwoSubmitsOneRun =>
               /\ statistics.success_rate = Hundredths(5000)
               /\ statistics.run_to_submit_ratio = Hundredths(50)

\* the timestamps the strings Created_1 and Created_no_fraction stand for
Stamp_1 == <<2023, 4, 1, 12, 46, 47, 860798>>
Stamp_no_fraction == <<2023, 4, 1, 12, 46, 47, 0>>

\* whole days from e to l, for the timestamps offered, by the calendar:
\* 2023-04-01 to 2023-04-03 is 2 days and to 2024-03-01 is 335 days (2024 is
\* a leap year); a day is not counted when l's time of day is before e's
WholeDays(e, l) ==
    CASE e = l -> 0
      [] e = Stamp0 /\ l = Stamp1 -> 2
      [] e \in {Stamp_1, Stamp_no_fraction} /\ l = Stamp1 -> 1
      [] e = Stamp0 /\ l = Stamp2 -> 335
      [] e \in {Stamp_1, Stamp_no_fraction} /\ l = Stamp2 -> 334
      [] e = Stamp1 /\ l = Stamp2 -> 332
      [] OTHER -> 0

\* C15: date_range_days is the whole number of days from the earliest to the
\* latest tracked timestamp, partial days cut off (2023-04-01 00:00:00 to
\* 2023-04-03 12:00:00 gives 2), and 0 when no timestamp was tracked.
C15_DateRangeDays ==
    Summarized =>
        statistics.date_range_days =
            IF statistics.earliest_attempt = PyNone \/ statistics.latest_attempt = PyNone
            THEN 0
            ELSE WholeDays(statistics.earliest_attempt.d, statistics.latest_attempt.d)

\* a summary from 2023-04-01 12:46:47.860798 to 2023-04-03 12:00:00, one day
\* and 23 hours apart
C15_Witness ==
    /\ Summarized
    /\ statistics.earliest_attempt = PyDatetime(Stamp_1)
    /\ statistics.latest_attempt = PyDatetime(Stamp1)
    /\ statistics.date_range_days = 1

(***************************************************************************)
(* The aggregator on its own and inside a run (SpecSummary).               *)
(***************************************************************************)
\* a record of the list lacks a key the aggregator reads
LacksKey(records) ==
    \E i \in 1..Len(records) :
        \E f \in {"user_id", "attempt_type", "is_correct", "created_at"} :
            records[i][f] = PyMissing

\* C16: get_statistics never lets an exception out: an empty list gives the
\* no-data result, a list with a record that lacks a key gives the no-summary
\* result, and a run that has aggregated goes on to the load and ends with a
\* notification.
C16_SummaryNeverRaises ==
    /\ mpc # "unit_raised"
    /\ (mpc = "unit_done" /\ (validated = <<>> \/ LacksKey(validated)))
           => statistics = NoStatistics
    /\ (mpc = "done" /\ HasEvent("statistics"))
           => /\ HasEvent("load") \/ call[1].result = Returned("test_connection", 0)
              /\ SuccessNotified \/ HasEvent("notify_error")

\* get_statistics has returned for a list in which a record lacks a key
C16_Witness ==
    /\ mpc = "unit_done"
    /\ validated # <<>>
    /\ LacksKey(validated)
    /\ statistics = NoStatistics

(***************************************************************************)
(* get_stats and the loader (Spec).                                        *)
(***************************************************************************)
\* an insert_data call of process p has ended, by return or by exception
LoadEnded(p) == call[p].pc = "done" /\ call[p].result.op = "insert_data"

\* with no storage error, the load returned and every key it was given is
\* persisted
LoadedAll(p) ==
    /\ call[p].result.kind = "return"
    /\ KeysOf(call[p].processed_data) \subseteq KeysOf(table)

\* C17: get_stats has no side effects: a load that follows it on the same
\* handler does what it does without the stats call, which, when no storage
\* error occurs, is to return with every key it was given persisted.
C17_StatsLeavesLoadAlone ==
    \A p \in Procs :
        (LoadEnded(p) /\ hist[p].prevOp = "get_stats" /\ fails = 0) => LoadedAll(p)

(***************************************************************************)
(* The chunks of a load (Spec).                                            *)
(***************************************************************************)
\* the step is process p's submitting the next row of its chunk to the INSERT
SubmitsRow(p) == call[p].pc = "ins_stmt" /\ call'[p] # call[p] /\ hist'[p] = hist[p]

\* C18: in every chunk the pre-filter runs before the conflict-guarded insert,
\* so every row submitted to the INSERT is one the pre-filter keeps: its key
\* is not persisted yet.
C18_PreFilterBeforeInsert ==
    [][\A p \in Procs :
          SubmitsRow(p) =>
              check_duplicates(p, <<batch(call[p])[call[p].stmt]>>) # <<>>]_vars

\* C19 (as claimed): a chunk failure is isolated to its chunk.  Once a load
\* has returned, the rows committed before the call and by its earlier chunks
\* are still in the table, and only the chunks that met a storage error have
\* failed: there are no more failed chunks than storage errors, also when the
\* first chunk of a call that had to create the table is the one that failed.
C19_ChunkFailureIsolated ==
    \A p \in Procs :
        LoadReturned(p)
        => /\ Len(table) >= Len(hist[p].tableAtCall) + hist[p].added
           /\ SubSeq(table, 1, Len(hist[p].tableAtCall)) = hist[p].tableAtCall
           /\ Cardinality(hist[p].failedChunks) <= fails

\* the records of chunk b of process p's load
ChunkRows(p, b) == batch([call[p] EXCEPT !.batch_num = b])

\* the rows after a chunk has been inserted whole: each record whose key the
\* rows do not hold yet is appended, in order
RECURSIVE InsertedWhole(_, _)
InsertedWhole(rows, chunk) ==
    IF chunk = <<>> THEN rows
    ELSE InsertedWhole(IF NaturalKey(Head(chunk)) \in KeysOf(rows) THEN rows
                       ELSE Append(rows, Head(chunk)),
                       Tail(chunk))

\* the rows after chunks b, b + 1, ... of process p's load, each of them either
\* inserted whole (it committed) or not at all (it failed)
RECURSIVE ChunkwiseOutcome(_, _, _)
ChunkwiseOutcome(p, rows, b) ==
    IF b >= total_batches(call[p]) THEN rows
    ELSE ChunkwiseOutcome(p,
                          IF b \in hist[p].okChunks
                          THEN InsertedWhole(rows, ChunkRows(p, b)) ELSE rows,
                          b + 1)

\* no other process has called its handler
Alone(p) == \A q \in Procs \ {p} : call[q].result.op = "none"

\* C20: each chunk is one atomic transaction.  Once a load has returned, every
\* record of a chunk that committed is persisted; and when no other process
\* wrote, the table is exactly the table the call found followed, chunk by
\* chunk, by all the not yet persisted records of each committed chunk and by
\* no row of a failed chunk, whatever that chunk had inserted before failing.
C20_ChunkAtomic ==
    \A p \in Procs :
        LoadReturned(p)
        => /\ \A b \in hist[p].okChunks : KeysOf(ChunkRows(p, b)) \subseteq KeysOf(table)
           /\ Alone(p) => table = ChunkwiseOutcome(p, hist[p].tableAtCall, 0)

\* C20 witness: a load of two records of different keys in one chunk has
\* returned; the chunk had inserted a row when its insert failed, and neither
\* record is in the table.
C20_Witness ==
    \E p \in Procs :
        /\ LoadReturned(p)
        /\ Alone(p)
        /\ call[p].batch_size = 2
        /\ Cardinality(KeysOf(call[p].processed_data)) = 2
        /\ hist[p].failedChunks = {0}
        /\ hist[p].undone = 1
        /\ KeysOf(call[p].processed_data) \cap KeysOf(table) = {}

(***************************************************************************)
(* The chunks of a load, their sizes and their order (SpecChunks).         *)
(***************************************************************************)
\* the positions in the input of the first and the last record of chunk b
FirstOf(p, b) == start_idx([call[p] EXCEPT !.batch_num = b]) + 1
LastOf(p, b) == end_idx([call[p] EXCEPT !.batch_num = b])

\* the chunks whose transaction has ended
Ended(p) == hist[p].okChunks \cup hist[p].failedChunks

\* C21: a load of n records has ceil(n / batch_size) chunks; they are
\* consecutive slices of the input in input order that together are the input,
\* so each record is in exactly one chunk; every chunk has batch_size records
\* except the last, which has between 1 and batch_size; the transactions run
\* in chunk order, one per chunk (150 records with batch size 100: two).
C21_ChunkPartition ==
    \A p \in Procs :
        call[p].result.op = "insert_data"
        => LET c == call[p]
               n == Len(c.processed_data)
               chunks == total_batches(c)
           IN /\ chunks * c.batch_size >= n
              /\ (chunks - 1) * c.batch_size < n \/ n = 0
              /\ n > 0 => FirstOf(p, 0) = 1 /\ LastOf(p, chunks - 1) = n
              /\ \A b \in 0..(chunks - 1) :
                    /\ ChunkRows(p, b) = SubSeq(c.processed_data, FirstOf(p, b), LastOf(p, b))
                    /\ b < chunks - 1 => FirstOf(p, b + 1) = LastOf(p, b) + 1
                    /\ Len(ChunkRows(p, b)) \in 1..c.batch_size
                    /\ b < chunks - 1 => Len(ChunkRows(p, b)) = c.batch_size
              /\ c.pc \in {"ins_stmt", "ins_commit"}
                    => c.batch_num < chunks /\ Ended(p) = 0..(c.batch_num - 1)
              /\ LoadReturned(p) => Ended(p) = 0..(chunks - 1)
              /\ (n = 150 /\ c.batch_size = 100) => chunks = 2

\* C21 witness: the load of 150 records with batch size 100 has returned after
\* two committed transactions.
C21_Witness ==
    \E p \in Procs :
        /\ LoadReturned(p)
        /\ Len(call[p].processed_data) = 150
        /\ call[p].batch_size = 100
        /\ hist[p].okChunks = {0, 1}

(***************************************************************************)
(* The order of the steps of a run (SpecMain).                             *)
(***************************************************************************)
\* the place of an event's step in the pipeline, 0 for an event that is no step
StepOf(e) ==
    CASE e = "transform" -> 1
      [] e = "statistics" -> 2
      [] e = "load" -> 3
      [] e \in {"export", "export_setup_failed"} -> 4
      [] e \in {"notify_statistics", "notify_simple", "notify_error"} -> 5
      [] OTHER -> 0

\* C22: the steps of a run happen in the order fetch, validate, aggregate,
\* load, export, notify.  Validation happens only after the fetch has returned
\* rows; aggregation and load only after validation has returned records;
\* while a storage call is in progress neither export nor notification has
\* happened; every step happens at most once and after the steps before it;
\* and a notification is followed only by the outcome of its delivery.
C22_StepOrder ==
    /\ HasEvent("transform") => response.has_data /\ raw_data # <<>>
    /\ (HasEvent("statistics") \/ HasEvent("load")) => validated # <<>>
    /\ call[1].pc # "idle" => \A i \in 1..Len(events) : StepOf(events[i]) < 4
    /\ \A i, j \in 1..Len(events) :
          (i < j /\ StepOf(events[i]) > 0 /\ StepOf(events[j]) > 0)
              => StepOf(events[i]) < StepOf(events[j])
    /\ \A i \in 1..Len(events) :
          StepOf(events[i]) = 5
              => /\ mpc = "done"
                 /\ i = Len(events) - 1
                 /\ events[Len(events)] \in {"delivered", "undelivered"}

\* C22 witness: a run has finished in which every step happened.
C22_Witness ==
    /\ mpc = "done"
    /\ events = <<"transform", "statistics", "load", "export", "notify_statistics",
                  "delivered">>

(***************************************************************************)
(* The diagnostics of the validator (SpecValidate).                        *)
(***************************************************************************)
\* the fields in the order the spec gives for their checks
CheckOrder ==
    <<"user_id", "lis_result_sourcedid", "lis_outcome_service_url", "is_correct",
      "attempt_type", "created_at">>

\* the row fails the check of field f, taken on its own
FailsCheck(row, f) ==
    CASE f = "user_id" -> row.user_id.t # "str"
      [] f = "lis_result_sourcedid" ->
            ~(row.lis_result_sourcedid.t = "str"
              /\ Contains(Str_course, row.lis_result_sourcedid.s))
      [] f = "lis_outcome_service_url" ->
            ~(row.lis_outcome_service_url.t = "str"
              /\ Contains(Str_https, row.lis_outcome_service_url.s))
      [] f = "is_correct" -> ~FlagAccepted(row.is_correct)
      [] f = "attempt_type" -> row.attempt_type \notin {PyStr(Str_submit), PyStr(Str_run)}
      [] f = "created_at" -> ~strptime(row.created_at, Format_fraction).ok

\* the first field of CheckOrder whose check the row fails, "" when none
FirstFailing(row) ==
    LET failing == {i \in 1..Len(CheckOrder) : FailsCheck(row, CheckOrder[i])}
    IN IF failing = {} THEN ""
       ELSE CheckOrder[CHOOSE i \in failing : \A j \in failing : i <= j]

StampOf(x) ==
    CASE x.t = "datetime" -> x.d
      [] x = PyStr(Created_1) -> Stamp_1
      [] x = PyStr(Created_no_fraction) -> Stamp_no_fraction
      [] OTHER -> <<>>

\* the timestamps of the records that have one
UsableStamps == {StampOf(validated[i].created_at) : i \in 1..Len(validated)} \ {<<>>}

\* C24: a record whose created_at is a string in neither format is counted in
\* the total, the attempt-type and the correctness counters like any other
\* record and adds nothing to the date range: earliest_attempt and
\* latest_attempt are the least and the greatest of the timestamps of the
\* records that have a usable one, and None when no record has.
C24_UnusableDateStillCounted ==
    Summarized =>
        /\ statistics.total_records = Len(validated)
        /\ statistics.submit_attempts = Having("attempt_type", {PyStr(Str_submit)})
        /\ statistics.run_attempts = Having("attempt_type", {PyStr(Str_run)})
        /\ statistics.correct_attempts + statistics.incorrect_attempts
               = Having("is_correct", CorrectFlags \cup IncorrectFlags)
        /\ IF UsableStamps = {}
           THEN statistics.earliest_attempt = PyNone /\ statistics.latest_attempt = PyNone
           ELSE /\ statistics.earliest_attempt.t = "datetime"
                /\ statistics.latest_attempt.t = "datetime"
                /\ statistics.earliest_attempt.d \in UsableStamps
                /\ statistics.latest_attempt.d \in UsableStamps
                /\ \A s \in UsableStamps :
                      /\ ~LexLess(s, statistics.earliest_attempt.d, 1)
                      /\ ~LexLess(statistics.latest_attempt.d, s, 1)

\* C24 witness: a summary of three submits, one with the unusable string
\* "2023-02-30 ..." and two with usable timestamps, one of them a string
\* without fractional seconds: three records counted, two timestamps tracked.
C24_Witness ==
    /\ Summarized
    /\ Len(validated) = 3
    /\ Having("created_at", {PyStr(Created_bad_day)}) = 1
    /\ Having("created_at", {PyStr(Created_no_fraction)}) = 1
    /\ Having("created_at", {PyDatetime(Stamp1)}) = 1
    /\ statistics.total_records = 3
    /\ statistics.submit_attempts = 3
    /\ statistics.correct_attempts = 3
    /\ statistics.earliest_attempt = PyDatetime(Stamp_no_fraction)
    /\ statistics.latest_attempt = PyDatetime(Stamp1)

(***************************************************************************)
(* What a load persists (Spec).                                            *)
(***************************************************************************)
\* C25: absent storage failures the keys persisted after a load do not depend
\* on the order of the records or on the batch size.  With no other writer, a
\* load that returns leaves exactly the keys persisted before it and the keys
\* of its records, however these were ordered and chunked; it fails to return
\* only when the session's transaction was left aborted by an earlier
\* get_stats on a missing table, and then it persists nothing.
C25_KeysIndependentOfOrder ==
    \A p \in Procs :
        (LoadEnded(p) /\ fails = 0 /\ Alone(p))
        => IF LoadReturned(p)
           THEN KeysOf(table) = KeysOf(hist[p].tableAtCall) \cup KeysOf(call[p].processed_data)
           ELSE /\ hist[p].prevOp = "get_stats"
                /\ ~tableExists
                /\ table = hist[p].tableAtCall

\* C25 witness: the same two records of different keys were loaded twice,
\* first as one chunk and then, in the opposite order, as two chunks, and the
\* second load found both keys persisted and left the table as it was.
C25_Witness ==
    \E p \in Procs :
        /\ LoadReturned(p)
        /\ fails = 0
        /\ Alone(p)
        /\ call[p].batch_size = 1
        /\ Len(call[p].processed_data) = 2
        /\ Cardinality(KeysOf(call[p].processed_data)) = 2
        /\ hist[p].prevData = <<<<call[p].processed_data[2], call[p].processed_data[1]>>>>
        /\ KeysOf(hist[p].tableAtCall) = KeysOf(call[p].processed_data)
        /\ table = hist[p].tableAtCall

(***************************************************************************)
(* The connection of a process (SpecConnection).                           *)
(***************************************************************************)
\* C26: the connection is opened on first use and reused.  Over any sequence
\* of test_connection, insert_data and get_stats calls a process has
\* established one connection for its open one and one for each that was
\* closed, so a connection is established only when there is none or the
\* current one is closed; and the connection a load of records used is still
\* open when the load has returned.
C26_ConnectionReused ==
    \A p \in Procs :
        /\ sess[p].opened = sess[p].lost + (IF sess[p].conn = "open" THEN 1 ELSE 0)
        /\ sess[p].conn = "none" <=> sess[p].opened = 0
        /\ (LoadReturned(p) /\ call[p].processed_data # <<>>) => sess[p].conn = "open"

\* C26 witness: a load has returned on the connection that an earlier call of
\* the process established, and after that connection was closed a later call
\* established a second one.
C26_Witness ==
    \E p \in Procs :
        /\ sess[p].opened = 2
        /\ sess[p].lost = 1
        /\ sess[p].conn = "open"
        /\ LoadReturned(p)
        /\ hist[p].prevOp \in {"test_connection", "get_stats"}

(***************************************************************************)
(* The schema bootstrap (Spec).                                            *)
(***************************************************************************)
\* the step is process p's running the existence check of _table_exists
ChecksTable(p) == call[p].pc = "ins_exists" /\ call'[p].pc # "ins_exists"

\* the process's previous load was given records and returned with no chunk
\* failed: it had found or created the table
BootstrappedBefore(p) == hist[p].prevData # <<>> /\ hist[p].prevData[1] # <<>>

\* C27 (as claimed): the existence check runs once in the lifetime of a
\* process: after a load of the process has verified or created the table, no
\* later load of the process runs the existence check again.
C27_BootstrapOnce ==
    [][\A p \in Procs : BootstrappedBefore(p) => ~ChecksTable(p)]_vars

(***************************************************************************)
(* Committed rows (Spec).                                                  *)
(***************************************************************************)
\* C28: no step of any handler updates or deletes a committed row: every step
\* leaves each committed row in its place with its fields unchanged, and at
\* most appends rows; so a committed row whose key a load submits again with
\* different non-key fields stays as it was.
C28_CommittedRowsOnlyGrow ==
    [][/\ Len(table') >= Len(table)
       /\ SubSeq(table', 1, Len(table)) = table]_vars

\* a load that returned had submitted a record whose key was committed with
\* another is_correct, and the committed row is still the original
C28_Witness ==
    \E p \in Procs :
        /\ LoadReturned(p)
        /\ \E i \in 1..Len(call[p].processed_data), j \in 1..Len(hist[p].tableAtCall) :
              /\ NaturalKey(call[p].processed_data[i]) = NaturalKey(hist[p].tableAtCall[j])
              /\ call[p].processed_data[i] # hist[p].tableAtCall[j]
              /\ table[j] = hist[p].tableAtCall[j]

(***************************************************************************)
(* Notifications of one run (SpecMain).                                    *)
(***************************************************************************)
\* the notifications the run has handed to the mail sender
Notifications ==
    {i \in 1..Len(events) :
        events[i] \in {"notify_statistics", "notify_simple", "notify_error"}}

\* C29: one run sends at most one notification, and never both the success and
\* the error notification.
C29_AtMostOneNotification ==
    /\ Cardinality(Notifications) <= 1
    /\ ~(SuccessNotified /\ HasEvent("notify_error"))

\* a run whose load returned and whose export then failed to set up ended
\* with the error notification as its only one
C29_Witness ==
    /\ mpc = "done"
    /\ HasEvent("load")
    /\ HasEvent("export_setup_failed")
    /\ HasEvent("notify_error")
    /\ Cardinality(Notifications) = 1

(***************************************************************************)
(* The range of success_rate (SpecValidate).                               *)
(***************************************************************************)
\* C30 (as claimed): the summary of any list of records that passed
\* process_data has a success_rate between 0 and 100 inclusive.
C30_SuccessRateWithinPercent ==
    Summarized =>
        /\ ~statistics.success_rate.inf
        /\ statistics.success_rate.h >= 0
        /\ statistics.success_rate.h <= 10000

====
